---- MODULE Spec2Model ----
(***************************************************************************)
(* SurgiInject: the injection engine (engine/injector.py,                  *)
(* engine/batch_engine.py), the retry engine (engine/retry_engine.py,      *)
(* engine/response_validator.py), the approval queue                       *)
(* (engine/injection_queue.py), the dependency tracker                     *)
(* (engine/dependency_tracker.py) and the directory injector               *)
(* (engine/recursive_enhanced.py).                                         *)
(*                                                                         *)
(* A text is a sequence of one-character strings, so that substring tests, *)
(* strip(), lower(), replace() and concatenation are computed as Python    *)
(* computes them.  A character outside ASCII is one element named by its   *)
(* code point ("U+1F4C4").  hashlib.sha256 is taken to be injective: a     *)
(* fingerprint is the text that is hashed.  Reads and writes of the        *)
(* program's own files (cache, ledger, queue) are taken to succeed; a      *)
(* source file of a directory may be unreadable, save_output may fail, and *)
(* the remote providers may fail on every call.                            *)
(***************************************************************************)
EXTENDS Integers, Sequences, FiniteSets, TLC

VARIABLES
    cache,        \* injector.cache: fingerprint -> {text, tokens}
    cacheFile,    \* content of surgi_cache.json
    apiKeys,      \* the providers whose API key is set in the environment
    obtained,     \* (content, instruction) -> usable texts run_injection obtained and cached
    disk,         \* content of every source file
    backups,      \* content of every <file>.backup that exists
    history,      \* files written under .surgiinject/history
    lastRun,      \* what the last run_injection call did
    lastBatch,    \* what the last batch_inject call did
    failures,     \* content of .surgi_failures.json (the failure ledger)
    lastRetry,    \* what the last inject_with_retry call did
    lastGate,     \* what the quality gates answered for the last response classified
    pending,      \* InjectionQueue.pending_injections
    approved,     \* InjectionQueue.approved_injections
    rejected,     \* InjectionQueue.rejected_injections
    queueFile,    \* content of .surgi_injection_queue.json
    sideFiles,    \* content of every <file>.approved.surgi that exists
    lock,         \* InjectionQueue.lock: "free" or "held"
    created,      \* number of queue items created so far (object identity)
    lastQ,        \* what the last queue operation did
    callers,      \* the threads inside approve_injection and reject_injection
    dependency_graph,  \* DependencyTracker.dependency_graph, items in dict order
    reverse_graph,     \* DependencyTracker.reverse_graph
    injection_order,   \* DependencyTracker.injection_order
    lastContext,  \* what the last get_context_files call returned
    directory,    \* the files of the directory handed to inject_directory_enhanced
    dirExists,    \* whether that directory exists
    outputs,      \* content of every <file>.surgiout that exists
    injected,     \* EnhancedRecursiveInjector.results
    dirRun,       \* the inject_directory_enhanced call in progress
    tree,         \* the files of the directory handed to inject_dir
    treeBackups,  \* content of every <file>.backup that safe_write_file wrote
    lastDir,      \* what the last inject_dir call did
    lastSplit,    \* what the last split of a large file gave
    backedFile,   \* content of the file the backup engine is used on
    backupStore,  \* content of every backup file in .surgi_backups
    backupMeta,   \* content of .surgi_backups/backup_metadata.json
    now,          \* the time, in ticks
    lastBackup,   \* what the backup engine did so far
    lastPrompt,   \* what the last prepare_context_prompt call built
    pool          \* the cache, the cache file and the workers of the thread pool

injectVars == <<cache, cacheFile, apiKeys, obtained, disk, backups, history, lastRun, lastBatch>>
retryVars == <<failures, lastRetry, lastGate>>
queueVars == <<pending, approved, rejected, queueFile, sideFiles, lock, created, lastQ, callers>>
trackerVars == <<dependency_graph, reverse_graph, injection_order, lastContext>>
dirVars == <<directory, dirExists, outputs, injected, dirRun>>
markerVars == <<tree, treeBackups, lastDir>>
backupVars == <<backedFile, backupStore, backupMeta, now, lastBackup>>
toolVars == <<markerVars, lastSplit, backupVars, lastPrompt, pool>>
vars == <<injectVars, retryVars, queueVars, trackerVars, dirVars, toolVars>>

-----------------------------------------------------------------------------
(* Python str operations on texts *)

UpperToLower ==
    [c \in {"A","B","C","D","E","F","G","H","I","J","K","L","M","N","O","P","Q",
            "R","S","T","U","V","W","X","Y","Z"} |->
       CASE c = "A" -> "a" [] c = "B" -> "b" [] c = "C" -> "c" [] c = "D" -> "d"
         [] c = "E" -> "e" [] c = "F" -> "f" [] c = "G" -> "g" [] c = "H" -> "h"
         [] c = "I" -> "i" [] c = "J" -> "j" [] c = "K" -> "k" [] c = "L" -> "l"
         [] c = "M" -> "m" [] c = "N" -> "n" [] c = "O" -> "o" [] c = "P" -> "p"
         [] c = "Q" -> "q" [] c = "R" -> "r" [] c = "S" -> "s" [] c = "T" -> "t"
         [] c = "U" -> "u" [] c = "V" -> "v" [] c = "W" -> "w" [] c = "X" -> "x"
         [] c = "Y" -> "y" [] c = "Z" -> "z"]

Lower(s) ==
    [i \in 1..Len(s) |-> IF s[i] \in DOMAIN UpperToLower THEN UpperToLower[s[i]] ELSE s[i]]

IsSpace(c) == c \in {" ", "\n", "\t", "\r"}

\* the first position >= i (last position <= i) of s that holds no whitespace
RECURSIVE SkipSpaces(_, _)
SkipSpaces(s, i) == IF i <= Len(s) /\ IsSpace(s[i]) THEN SkipSpaces(s, i + 1) ELSE i

RECURSIVE SkipSpacesBack(_, _)
SkipSpacesBack(s, i) == IF i >= 1 /\ IsSpace(s[i]) THEN SkipSpacesBack(s, i - 1) ELSE i

Strip(s) == SubSeq(s, SkipSpaces(s, 1), SkipSpacesBack(s, Len(s)))

StartsAt(s, p, i) ==
    /\ i + Len(p) - 1 <= Len(s)
    /\ \A j \in 1..Len(p) : s[i + j - 1] = p[j]

Contains(s, p) == \E i \in 1..(Len(s) + 1) : StartsAt(s, p, i)

-----------------------------------------------------------------------------
(* engine/quality.py and engine/file_utils.py: the response gates *)

weak_indicators == {
    <<"n","o"," ","c","h","a","n","g","e">>,
    <<"n","o"," ","c","h","a","n","g","e","s"," ","n","e","e","d","e","d">>,
    <<"a","l","r","e","a","d","y"," ","c","o","r","r","e","c","t">>,
    <<"l","o","o","k","s"," ","g","o","o","d">>,
    <<"n","o"," ","i","s","s","u","e","s"," ","f","o","u","n","d">>,
    <<"c","a","n","n","o","t"," ","b","e"," ","i","m","p","r","o","v","e","d">>,
    <<"n","o","t","h","i","n","g"," ","t","o"," ","f","i","x">> }

error_indicators == {
    <<"e","r","r","o","r",":">>,
    <<"f","a","i","l","e","d"," ","t","o">>,
    <<"u","n","a","b","l","e"," ","t","o">>,
    <<"c","a","n","n","o","t"," ","p","r","o","c","e","s","s">>,
    <<"a","p","i"," ","e","r","r","o","r">>,
    <<"t","i","m","e","o","u","t">>,
    <<"i","n","v","a","l","i","d"," ","r","e","q","u","e","s","t">> }

ContainsAny(s, patterns) == \E p \in patterns : Contains(s, p)

\* the checks of is_response_weak on response.strip() and response.lower()
WeakChecks(stripped, response_lower) ==
    \/ stripped = <<>>
    \/ ContainsAny(response_lower, weak_indicators)
    \/ Len(stripped) < 50
    \/ ContainsAny(response_lower, error_indicators)

is_response_weak(response) == WeakChecks(Strip(response), Lower(response))

meaningless_responses == {
    <<>>,
    <<"n","o","n","e">>,
    <<"n","u","l","l">>,
    <<"u","n","d","e","f","i","n","e","d">> }

meaningful_error_indicators == {
    <<"e","r","r","o","r",":">>,
    <<"f","a","i","l","e","d",":">>,
    <<"e","x","c","e","p","t","i","o","n",":">>,
    <<"[","i","n","j","e","c","t","i","o","n"," ","f","a","i","l","e","d">> }

\* the checks of is_meaningful_response on response.lower().strip()
MeaningfulChecks(response_lower) ==
    /\ response_lower \notin meaningless_responses
    /\ ~ContainsAny(response_lower, meaningful_error_indicators)

is_meaningful_response(response) == MeaningfulChecks(Strip(Lower(response)))

-----------------------------------------------------------------------------
(* The files, instructions and provider answers of the model *)

PathA == <<"a",".","p","y">>

PathB == <<"b",".","p","y">>

Paths == {PathA, PathB}

Code1 == <<"x"," ","="," ","1","\n">>

Prompt1 == <<"f","i","x"," ","b","u","g","s">>

Context1 == 
    <<"=","=","="," ","C","O","N","T","E","X","T"," ","S","T","A","R","T",":"," ","b",".","p","y"," ","=","=","=","\n","x"," ","="," ","1","\n","\n","=","=","="," ","C","O","N","T","E","X","T"," ","E","N","D",":"," ","b",".","p","y"," ","=","=","=","\n","\n">>

GoodCode ==
    <<"d","e","f"," ","f","(","x",")",":","\n"," "," "," "," ","y"," ","="," ","x"," ","+"," ","1","\n"," "," "," "," ","r","e","t","u","r","n"," ","y","\n","\n","p","r","i","n","t","(","f","(","4","1",")",")","\n">>

EscalatedCode ==
    <<"d","e","f"," ","f","(","x",")",":","\n"," "," "," "," ","i","f"," ","x"," ","i","s"," ","N","o","n","e",":","\n"," "," "," "," "," "," "," "," ","r","e","t","u","r","n"," ","0","\n"," "," "," "," ","r","e","t","u","r","n"," ","x"," ","+"," ","1","\n">>

NoChangesText == <<"N","o"," ","c","h","a","n","g","e","s"," ","n","e","e","d","e","d",".">>

-----------------------------------------------------------------------------
(* engine/prompty.py and engine/injector.py *)

build_prompt(file_path, code, task) ==
    <<"U+1F4C4"," ","F","I","L","E",":"," ">> \o file_path
    \o <<"\n","U+1F9E0"," ","T","A","S","K",":"," ">> \o Strip(task)
    \o <<"\n","U+1F4AC"," ","C","O","N","T","E","X","T",":","\n">> \o code
    \o <<"\n","\n","U+1F680"," ","I","N","S","T","R","U","C","T","I","O","N",":","\n">> \o task \o <<"\n">>

compute_fingerprint(file_content, prompt_content) == file_content \o prompt_content

NoProvidersMsg ==
    <<"[","N","o"," ","A","I"," ","p","r","o","v","i","d","e","r","s"," ","c","o","n","f","i","g","u","r","e","d","."," ","P","l","e","a","s","e"," ","c","h","e","c","k"," ","y","o","u","r"," ","A","P","I"," ","k","e","y","s",".","]">>

AllProvidersFailedMsg ==
    <<"[","A","l","l"," ","A","I"," ","p","r","o","v","i","d","e","r","s"," ","f","a","i","l","e","d","."," ","P","l","e","a","s","e"," ","t","r","y"," ","a","g","a","i","n"," ","l","a","t","e","r"," ","o","r"," ","c","h","e","c","k"," ","y","o","u","r"," ","c","o","n","f","i","g","u","r","a","t","i","o","n",".","]">>

\* The gates are evaluated once on the texts the model lets the providers, run_model
\* and the injector produce, and looked up afterwards.
KnownTexts ==
    {<<>>, Code1, GoodCode, EscalatedCode, NoChangesText, NoProvidersMsg,
     AllProvidersFailedMsg}

WeakKnown == {t \in KnownTexts : is_response_weak(t)}

MeaningfulKnown == {t \in KnownTexts : is_meaningful_response(t)}

ResponseIsWeak(t) == IF t \in KnownTexts THEN t \in WeakKnown ELSE is_response_weak(t)

ResponseIsMeaningful(t) ==
    IF t \in KnownTexts THEN t \in MeaningfulKnown ELSE is_meaningful_response(t)

\* get_completion returns None (no key, or the request failed) or {text, tokens}
NoCompletion == [ok |-> FALSE, text |-> <<>>, tokens |-> 0]

Completion(text) == [ok |-> TRUE, text |-> text, tokens |-> Len(text)]

CachePut(c, fingerprint, response) ==
    [k \in DOMAIN c \cup {fingerprint} |->
        IF k = fingerprint THEN [text |-> response.text, tokens |-> response.tokens]
        ELSE c[k]]

AvailableProviders(keys) ==
    (IF "anthropic" \in keys THEN <<"anthropic">> ELSE <<>>)
    \o (IF "groq" \in keys THEN <<"groq">> ELSE <<>>)

\* the provider loop of handle_injection; outcome[p] is what get_completion(p, prompt)
\* answers in this call
RECURSIVE TryProviders(_, _, _, _, _, _)
TryProviders(c, fingerprint, providers, i, outcome, no_cache) ==
    IF i > Len(providers)
    THEN [text |-> AllProvidersFailedMsg, cache |-> c, calls |-> providers,
          hit |-> FALSE, answered |-> FALSE, wrote |-> FALSE]
    ELSE LET response == outcome[providers[i]]
         IN  IF response.ok /\ response.text # <<>>
             THEN [text |-> response.text,
                   cache |-> IF no_cache THEN c ELSE CachePut(c, fingerprint, response),
                   calls |-> SubSeq(providers, 1, i),
                   hit |-> FALSE, answered |-> TRUE, wrote |-> ~no_cache]
             ELSE TryProviders(c, fingerprint, providers, i + 1, outcome, no_cache)

\* handle_injection once the fingerprint is computed (lines 344-397)
HandleWithFingerprint(c, fingerprint, no_cache, force_refresh, providers, outcome) ==
    IF ~force_refresh /\ ~no_cache /\ fingerprint \in DOMAIN c
    THEN [text |-> c[fingerprint].text, cache |-> c, calls |-> <<>>,
          hit |-> TRUE, answered |-> FALSE, wrote |-> FALSE]
    ELSE IF providers = <<>>
    THEN [text |-> NoProvidersMsg, cache |-> c, calls |-> <<>>,
          hit |-> FALSE, answered |-> FALSE, wrote |-> FALSE]
    ELSE TryProviders(c, fingerprint, providers, 1, outcome, no_cache)

handle_injection(c, prompt, file_content, no_cache, force_refresh, keys, outcome) ==
    HandleWithFingerprint(c, compute_fingerprint(file_content, prompt), no_cache,
                          force_refresh, AvailableProviders(keys), outcome)

\* run_model answers a text or raises
ModelRaises == [ok |-> FALSE, text |-> <<>>]

ModelAnswers(text) == [ok |-> TRUE, text |-> text]

\* steps 3 and 4 of run_injection (lines 148-184): h is what handle_injection
\* returned, weak is is_response_weak of its text
RunAfterHandle(h, weak, source_code, model) ==
    [result |-> IF weak /\ model.ok /\ Strip(model.text) # <<>> THEN model.text
                ELSE IF Strip(h.text) = <<>> THEN source_code
                ELSE h.text,
     cache |-> h.cache, calls |-> h.calls, modelCalls |-> IF weak THEN 1 ELSE 0,
     wrote |-> h.wrote, answered |-> h.answered, failed |-> ~h.hit /\ ~h.answered]

RunAfterCacheCheck(h, source_code, model) ==
    RunAfterHandle(h, ResponseIsWeak(h.text), source_code, model)

\* run_injection: the result, the cache it leaves, the providers it called and
\* the number of run_model calls (the escalation)
RunWithFingerprint(c, fingerprint, source_code, formatted_prompt, force, keys, outcome, model) ==
    IF ~force /\ fingerprint \in DOMAIN c
    THEN [result |-> c[fingerprint].text, cache |-> c, calls |-> <<>>,
          modelCalls |-> 0, wrote |-> FALSE, answered |-> FALSE, failed |-> FALSE]
    ELSE RunAfterCacheCheck(
             handle_injection(c, formatted_prompt, source_code, FALSE, FALSE, keys, outcome),
             source_code, model)

run_injection(c, source_code, prompt_template, file_path, force, keys, outcome, model) ==
    RunWithFingerprint(c, compute_fingerprint(source_code, prompt_template), source_code,
                       build_prompt(file_path, source_code, prompt_template), force, keys,
                       outcome, model)

-----------------------------------------------------------------------------
(* engine/file_utils.py: markers and writes *)

PYTHON_MARKER == <<"#"," ","I","n","j","e","c","t","e","d"," ","b","y"," ","S","u","r","g","i","I","n","j","e","c","t">>

HTML_MARKER == <<"<","!","-","-"," ","I","n","j","e","c","t","e","d"," ","b","y"," ","S","u","r","g","i","I","n","j","e","c","t"," ","-","-",">">>

JS_MARKER == <<"/","/"," ","I","n","j","e","c","t","e","d"," ","b","y"," ","S","u","r","g","i","I","n","j","e","c","t">>

\* Path.name and Path.suffix
PathName(file_path) ==
    LET slashes == {i \in 1..Len(file_path) : file_path[i] = "/"}
    IN  IF slashes = {} THEN file_path
        ELSE SubSeq(file_path, (CHOOSE i \in slashes : \A j \in slashes : j <= i) + 1,
                    Len(file_path))

PathSuffix(file_path) ==
    LET name == PathName(file_path)
        dots == {i \in 2..Len(name) : name[i] = "."}
    IN  IF dots = {} THEN <<>>
        ELSE SubSeq(name, CHOOSE i \in dots : \A j \in dots : j <= i, Len(name))

get_marker_for_file(file_path) ==
    LET ext == Lower(PathSuffix(file_path))
    IN  IF ext = <<".","p","y">> THEN PYTHON_MARKER
        ELSE IF ext \in {<<".","h","t","m","l">>, <<".","h","t","m">>} THEN HTML_MARKER
        ELSE IF ext \in {<<".","j","s">>, <<".","t","s">>, <<".","j","s","x">>,
                         <<".","t","s","x">>} THEN JS_MARKER
        ELSE PYTHON_MARKER

file_contains_marker(d, file_path) == Contains(d[file_path], get_marker_for_file(file_path))

\* a write without the marker; C22 must tell it from add_marker_to_content
ContentUnmarked(content, file_path) == content

add_marker_to_content(content, file_path) ==
    LET marker == get_marker_for_file(file_path)
    IN  IF ~Contains(content, marker) THEN marker \o <<"\n">> \o content ELSE content

-----------------------------------------------------------------------------
(* engine/context_builder.py: inject_with_context.  context is what          *)
(* ContextBuilder.build_context_for_file returns for the file.               *)

inject_with_context(c, d, file_path, prompt_template, context, keys, outcome, model) ==
    LET source_content == d[file_path]
        target == <<"=","=","="," ","T","A","R","G","E","T"," ","F","I","L","E",":"," ">> \o PathName(file_path) \o <<" ","=","=","=","\n">>
                  \o source_content \o <<"\n","=","=","="," ","E","N","D"," ","T","A","R","G","E","T"," ","F","I","L","E"," ","=","=","=","\n">>
        enhanced_prompt ==
            IF context # <<>>
            THEN prompt_template \o <<"\n","\n","=","=","="," ","P","R","O","J","E","C","T"," ","C","O","N","T","E","X","T"," ","=","=","=","\n">> \o context \o <<"\n","=","=","="," ","E","N","D"," ","C","O","N","T","E","X","T"," ","=","=","=","\n","\n","P","l","e","a","s","e"," ","a","n","a","l","y","z","e"," ","t","h","e"," ","c","o","n","t","e","x","t"," ","a","b","o","v","e"," ","a","n","d"," ","a","p","p","l","y"," ","t","h","e"," ","r","e","q","u","e","s","t","e","d"," ","c","h","a","n","g","e","s"," ","t","o"," ","t","h","e"," ","f","o","l","l","o","w","i","n","g"," ","f","i","l","e",":","\n","\n">> \o target
            ELSE prompt_template \o <<"\n", "\n">> \o target
    IN  IF source_content = <<>>
        THEN [result |-> <<>>, cache |-> c, calls |-> <<>>, modelCalls |-> 0,
              wrote |-> FALSE, answered |-> FALSE, failed |-> FALSE]
        ELSE run_injection(c, source_content, enhanced_prompt, file_path, FALSE,
                           keys, outcome, model)

-----------------------------------------------------------------------------
(* What the providers, run_model and the context builder may answer *)

ProviderNames == {"anthropic", "groq"}

ProviderOutcomes == {NoCompletion, Completion(GoodCode), Completion(NoChangesText)}

ModelOutcomes == {ModelRaises, ModelAnswers(EscalatedCode), ModelAnswers(<<>>)}

\* what happens while batch_inject processes one file
BatchScenarios ==
    { [outcome |-> [p \in ProviderNames |-> NoCompletion],
       model |-> ModelRaises, context |-> <<>>],
      [outcome |-> [p \in ProviderNames |-> Completion(GoodCode)],
       model |-> ModelRaises, context |-> <<>>],
      [outcome |-> [p \in ProviderNames |->
                       IF p = "groq" THEN Completion(GoodCode) ELSE NoCompletion],
       model |-> ModelRaises, context |-> Context1],
      [outcome |-> [p \in ProviderNames |-> Completion(NoChangesText)],
       model |-> ModelAnswers(EscalatedCode), context |-> <<>>] }

FileLists == {<<PathA>>, <<PathB>>, <<PathA, PathB>>, <<PathB, PathA>>}

-----------------------------------------------------------------------------
(* engine/batch_engine.py *)

RECURSIVE SplitLines(_)
SplitLines(s) ==
    LET nl == {i \in 1..Len(s) : s[i] = "\n"}
    IN  IF nl = {} THEN <<s>>
        ELSE LET i == CHOOSE k \in nl : \A j \in nl : k <= j
             IN  <<SubSeq(s, 1, i - 1)>> \o SplitLines(SubSeq(s, i + 1, Len(s)))

RECURSIVE JoinLines(_)
JoinLines(lines) ==
    IF lines = <<>> THEN <<>>
    ELSE IF Len(lines) = 1 THEN lines[1]
    ELSE lines[1] \o <<"\n">> \o JoinLines(Tail(lines))

WordChars ==
    {"a","b","c","d","e","f","g","h","i","j","k","l","m","n","o","p","q","r","s","t",
     "u","v","w","x","y","z","0","1","2","3","4","5","6","7","8","9","_"}
    \cup DOMAIN UpperToLower

\* the longest run of characters of `chars` in s from position i on
RECURSIVE RunEnd(_, _, _)
RunEnd(s, i, chars) ==
    IF i <= Len(s) /\ s[i] \in chars THEN RunEnd(s, i + 1, chars) ELSE i

\* def_pattern = ^(def|class)\s+(\w+), matched against a stripped line
def_pattern_match(line) ==
    LET kw == IF StartsAt(line, <<"d","e","f">>, 1) THEN <<"d","e","f">>
              ELSE IF StartsAt(line, <<"c","l","a","s","s">>, 1) THEN <<"c","l","a","s","s">>
              ELSE <<>>
        ws == RunEnd(line, Len(kw) + 1, {" ", "\n", "\t", "\r"})
        we == RunEnd(line, ws, WordChars)
    IN  IF kw # <<>> /\ ws > Len(kw) + 1 /\ we > ws
        THEN [matched |-> TRUE, key |-> kw \o <<":">> \o SubSeq(line, ws, we - 1)]
        ELSE [matched |-> FALSE, key |-> <<>>]

RECURSIVE DedupLines(_, _, _, _)
DedupLines(lines, i, seen_defs, new_lines) ==
    IF i > Len(lines) THEN [seen |-> seen_defs, lines |-> new_lines]
    ELSE LET m == def_pattern_match(Strip(lines[i]))
         IN  IF m.matched /\ m.key \in seen_defs
             THEN DedupLines(lines, i + 1, seen_defs, new_lines)
             ELSE DedupLines(lines, i + 1,
                             IF m.matched THEN seen_defs \cup {m.key} ELSE seen_defs,
                             Append(new_lines, lines[i]))

\* injected_outputs is the dict in insertion order: a sequence of [file, content]
RECURSIVE DedupOutputs(_, _, _, _)
DedupOutputs(injected_outputs, i, seen_defs, deduped) ==
    IF i > Len(injected_outputs) THEN deduped
    ELSE LET r == DedupLines(SplitLines(injected_outputs[i].content), 1, seen_defs, <<>>)
         IN  DedupOutputs(injected_outputs, i + 1, r.seen,
                          Append(deduped, [file |-> injected_outputs[i].file,
                                           content |-> JoinLines(r.lines)]))

deduplicate_across_files(injected_outputs) == DedupOutputs(injected_outputs, 1, {}, <<>>)

\* lines 90-97 of batch_inject: r is what the injection returned for file_path
BatchCheckResponse(st, file_path, r, meaningful) ==
    [cache |-> r.cache, keys |-> st.keys, wrote |-> st.wrote \/ r.wrote,
     providerFailed |-> IF r.failed THEN st.providerFailed \cup {file_path}
                        ELSE st.providerFailed,
     results |-> IF meaningful THEN st.results
                 ELSE Append(st.results, [file |-> file_path, status |-> "failed",
                                          reason |-> "empty/weak response"]),
     outputs |-> IF meaningful
                 THEN Append(st.outputs, [file |-> file_path, content |-> r.result])
                 ELSE st.outputs]

BatchAfterInjection(st, file_path, r) ==
    BatchCheckResponse(st, file_path, r, ResponseIsMeaningful(r.result))

BatchSkip(st, file_path, reason) ==
    [st EXCEPT !.results = Append(@, [file |-> file_path, status |-> "skipped",
                                      reason |-> reason])]

\* one iteration of the first loop of batch_inject (lines 46-97); e is what the
\* providers, run_model and the context builder answer while file_path is processed
BatchFile(st, d, file_path, prompt_template, with_context, e) ==
    IF file_contains_marker(d, file_path)
    THEN BatchSkip(st, file_path, "already injected")
    ELSE IF Strip(d[file_path]) = <<>>
    THEN BatchSkip(st, file_path, "empty")
    ELSE IF with_context
    THEN BatchAfterInjection(st, file_path,
             inject_with_context(st.cache, d, file_path, prompt_template, e.context,
                                 st.keys, e.outcome, e.model))
    ELSE BatchAfterInjection(st, file_path,
             run_injection(st.cache, d[file_path], prompt_template, file_path, FALSE,
                           st.keys, e.outcome, e.model))

RECURSIVE BatchLoop(_, _, _, _, _, _, _)
BatchLoop(st, d, files, i, prompt_template, with_context, env) ==
    IF i > Len(files) THEN st
    ELSE BatchLoop(BatchFile(st, d, files[i], prompt_template, with_context,
                             env[files[i]]),
                   d, files, i + 1, prompt_template, with_context, env)

\* safe_write_file(file_path, marked, backup=True) and save_injection_history
BatchWriteFile(w, file_path, marked) ==
    [disk |-> [w.disk EXCEPT ![file_path] = marked],
     backups |-> [f \in DOMAIN w.backups \cup {file_path} |->
                    IF f = file_path THEN w.disk[f] ELSE w.backups[f]],
     history |-> w.history \cup {[file |-> file_path, content |-> marked]},
     results |-> Append(w.results, [file |-> file_path, status |-> "injected",
                                    reason |-> ""])]

\* the second loop of batch_inject (lines 105-113): mark, back up, write, log
RECURSIVE BatchWrite(_, _, _)
BatchWrite(w, injected_outputs, i) ==
    IF i > Len(injected_outputs) THEN w
    ELSE BatchWrite(BatchWriteFile(w, injected_outputs[i].file,
                                   add_marker_to_content(injected_outputs[i].content,
                                                         injected_outputs[i].file)),
                    injected_outputs, i + 1)

-----------------------------------------------------------------------------
(* The observations the claims read *)

NoRun ==
    [op |-> "none", source_code |-> <<>>, prompt_template |-> <<>>, file_path |-> <<>>,
     force |-> FALSE, result |-> <<>>, calls |-> <<>>, modelCalls |-> 0,
     cachedBefore |-> FALSE, obtainedBefore |-> {}]

NoBatch ==
    [op |-> "none", results |-> <<>>, providerFailed |-> {},
     before |-> [f \in Paths |-> <<>>]]

-----------------------------------------------------------------------------
(* The injector: run_injection and batch_inject *)

InitInject ==
    /\ cache = <<>>
    /\ cacheFile = <<>>
    /\ apiKeys \in SUBSET ProviderNames
    /\ obtained = {}
    /\ disk = [f \in Paths |-> Code1]
    /\ backups = <<>>
    /\ history = {}
    /\ lastRun = NoRun
    /\ lastBatch = NoBatch

\* the state after run_injection returned r
RunInjectionDone(r, source_code, prompt_template, file_path, force, formatted_prompt) ==
    /\ cache' = r.cache
    /\ cacheFile' = IF r.wrote THEN r.cache ELSE cacheFile
    /\ obtained' = IF r.answered /\ r.wrote /\ r.modelCalls = 0
                   THEN obtained \cup {[content |-> source_code,
                                        instruction |-> prompt_template,
                                        text |-> r.result]}
                   ELSE obtained
    /\ lastRun' = [op |-> "run_injection", source_code |-> source_code,
                   prompt_template |-> prompt_template, file_path |-> file_path,
                   force |-> force, result |-> r.result, calls |-> r.calls,
                   modelCalls |-> r.modelCalls,
                   cachedBefore |->
                       \/ compute_fingerprint(source_code, prompt_template)
                              \in DOMAIN cache
                       \/ compute_fingerprint(source_code, formatted_prompt)
                              \in DOMAIN cache,
                   obtainedBefore |->
                       {o.text : o \in {x \in obtained :
                                           /\ x.content = source_code
                                           /\ x.instruction = prompt_template}}]
    /\ UNCHANGED <<apiKeys, disk, backups, history, lastBatch>>

\* a caller runs run_injection(source_code, prompt_template, file_path, force=force)
RunInjection(source_code, prompt_template, file_path, force, outcome, model) ==
    RunInjectionDone(run_injection(cache, source_code, prompt_template, file_path, force,
                                   apiKeys, outcome, model),
                     source_code, prompt_template, file_path, force,
                     build_prompt(file_path, source_code, prompt_template))

\* the state after batch_inject wrote w; st is the state its first loop left
BatchInjectDone(st, w) ==
    /\ cache' = st.cache
    /\ cacheFile' = IF st.wrote THEN st.cache ELSE cacheFile
    /\ disk' = w.disk
    /\ backups' = w.backups
    /\ history' = w.history
    /\ lastBatch' = [op |-> "batch_inject", results |-> w.results,
                     providerFailed |-> st.providerFailed, before |-> disk]
    /\ UNCHANGED <<apiKeys, obtained, lastRun>>

BatchInjectWrite(st, coordinated) ==
    BatchInjectDone(st,
                    BatchWrite([disk |-> disk, backups |-> backups, history |-> history,
                                results |-> st.results],
                               IF coordinated THEN deduplicate_across_files(st.outputs)
                               ELSE st.outputs, 1))

\* batch_inject(files, prompt_path, with_context, coordinated)
BatchInject(files, prompt_template, with_context, coordinated, env) ==
    BatchInjectWrite(BatchLoop([cache |-> cache, keys |-> apiKeys, wrote |-> FALSE,
                                results |-> <<>>, outputs |-> <<>>,
                                providerFailed |-> {}],
                               disk, files, 1, prompt_template, with_context, env),
                     coordinated)

RunInjectionStep ==
    \E file_path \in Paths, force \in BOOLEAN,
       outcome \in [ProviderNames -> ProviderOutcomes], model \in ModelOutcomes :
        /\ RunInjection(Code1, Prompt1, file_path, force, outcome, model)
        /\ UNCHANGED <<retryVars, queueVars, trackerVars, dirVars, toolVars>>

BatchInjectStep ==
    \E files \in FileLists, with_context \in BOOLEAN, coordinated \in BOOLEAN :
      \E env \in [{files[i] : i \in 1..Len(files)} -> BatchScenarios] :
        /\ BatchInject(files, Prompt1, with_context, coordinated, env)
        /\ UNCHANGED <<retryVars, queueVars, trackerVars, dirVars, toolVars>>

-----------------------------------------------------------------------------
(* engine/response_validator.py: ResponseValidator *)

validator_weak_patterns == {
    <<"n","o","n","e">>,
    <<"n","/","a">>,
    <<"n","u","l","l">>,
    <<"u","n","d","e","f","i","n","e","d">>,
    <<"e","r","r","o","r">>,
    <<"f","a","i","l","e","d">>,
    <<"i"," ","c","a","n","n","o","t">>,
    <<"i","'","m"," ","u","n","a","b","l","e">>,
    <<"i"," ","d","o","n","'","t"," ","k","n","o","w">>,
    <<"i","'","m"," ","n","o","t"," ","s","u","r","e">>,
    <<"n","o"," ","c","h","a","n","g","e","s"," ","n","e","e","d","e","d">>,
    <<"n","o"," ","m","o","d","i","f","i","c","a","t","i","o","n","s"," ","r","e","q","u","i","r","e","d">>,
    <<"t","h","e"," ","c","o","d","e"," ","i","s"," ","a","l","r","e","a","d","y">>,
    <<"t","h","e"," ","f","i","l","e"," ","i","s"," ","a","l","r","e","a","d","y">>,
    <<"p","l","e","a","s","e"," ","p","r","o","v","i","d","e"," ","m","o","r","e">>,
    <<"n","e","e","d"," ","m","o","r","e"," ","c","o","n","t","e","x","t">>,
    <<"c","a","n","n","o","t"," ","p","r","o","c","e","s","s">>,
    <<"u","n","a","b","l","e"," ","t","o"," ","p","r","o","c","e","s","s">>,
    <<"i","n","v","a","l","i","d"," ","i","n","p","u","t">>,
    <<"m","a","l","f","o","r","m","e","d"," ","r","e","q","u","e","s","t">> }

validator_error_indicators == {
    <<"e","x","c","e","p","t","i","o","n">>,
    <<"t","r","a","c","e","b","a","c","k">>,
    <<"s","t","a","c","k"," ","t","r","a","c","e">>,
    <<"e","r","r","o","r"," ","o","c","c","u","r","r","e","d">>,
    <<"f","a","i","l","e","d"," ","t","o">>,
    <<"c","o","u","l","d"," ","n","o","t">>,
    <<"u","n","a","b","l","e"," ","t","o">>,
    <<"i","n","v","a","l","i","d">>,
    <<"s","y","n","t","a","x"," ","e","r","r","o","r">>,
    <<"r","u","n","t","i","m","e"," ","e","r","r","o","r">>,
    <<"t","y","p","e"," ","e","r","r","o","r">> }

code_indicators == {
    <<"d","e","f"," ">>,
    <<"c","l","a","s","s"," ">>,
    <<"i","m","p","o","r","t"," ">>,
    <<"f","r","o","m"," ">>,
    <<"r","e","t","u","r","n"," ">>,
    <<"i","f"," ">>,
    <<"f","o","r"," ">>,
    <<"w","h","i","l","e"," ">>,
    <<"t","r","y",":">>,
    <<"e","x","c","e","p","t",":">>,
    <<"f","u","n","c","t","i","o","n"," ">>,
    <<"c","o","n","s","t"," ">>,
    <<"l","e","t"," ">>,
    <<"v","a","r"," ">>,
    <<"<">>,
    <<">">>,
    <<"=">>,
    <<"(">>,
    <<")">>,
    <<"{">>,
    <<"}">> }

\* the checks of is_weak_response on response.strip() and response.strip().lower()
ValidatorWeakChecks(response, stripped, response_lower) ==
    \/ Len(stripped) < 30
    \/ ContainsAny(response_lower, validator_weak_patterns)
    \/ ContainsAny(response_lower, validator_error_indicators)
    \/ (Len(stripped) < 100 /\ ~ContainsAny(response, code_indicators))

is_weak_response(response) ==
    \/ response = <<>>
    \/ ValidatorWeakChecks(response, Strip(response), Lower(Strip(response)))

\* a record of the failure ledger; reason is the message logged
Failure(file_path, prompt, provider, reason, attempt_count) ==
    [file |-> file_path, prompt |-> prompt, provider |-> provider, reason |-> reason,
     attempt_count |-> attempt_count]

\* a comparison that forgets the provider; C7 must tell it from SameFailure
SameFailureAnyProvider(failure, file_path, prompt, provider) ==
    /\ failure.file = file_path
    /\ failure.prompt = prompt

SameFailure(failure, file_path, prompt, provider) ==
    /\ failure.file = file_path
    /\ failure.prompt = prompt
    /\ failure.provider = provider

is_duplicate_failure(ledger, file_path, prompt, provider) ==
    \E i \in 1..Len(ledger) : SameFailure(ledger[i], file_path, prompt, provider)

get_attempt_count(ledger, file_path, prompt, provider) ==
    Cardinality({i \in 1..Len(ledger) : SameFailure(ledger[i], file_path, prompt, provider)})
    + 1

\* a ledger that keeps the new record only
LogFailureAlone(ledger, file_path, prompt, provider, reason) ==
    <<Failure(file_path, prompt, provider, reason, 1)>>

log_failure(ledger, file_path, prompt, provider, reason) ==
    Append(ledger, Failure(file_path, prompt, provider, reason,
                           get_attempt_count(ledger, file_path, prompt, provider)))

LowerToUpper == [c \in {UpperToLower[u] : u \in DOMAIN UpperToLower} |->
                    CHOOSE u \in DOMAIN UpperToLower : UpperToLower[u] = c]

IsLetter(c) == c \in DOMAIN UpperToLower \/ c \in DOMAIN LowerToUpper

\* str.title()
Title(s) ==
    [i \in 1..Len(s) |->
        IF i = 1 \/ ~IsLetter(s[i - 1])
        THEN (IF s[i] \in DOMAIN LowerToUpper THEN LowerToUpper[s[i]] ELSE s[i])
        ELSE (IF s[i] \in DOMAIN UpperToLower THEN UpperToLower[s[i]] ELSE s[i])]

\* str.replace(old, new): every occurrence, left to right, without overlap
RECURSIVE ReplaceFrom(_, _, _, _)
ReplaceFrom(s, old, new, hits) ==
    IF hits = {} THEN s
    ELSE LET i == CHOOSE k \in hits : \A j \in hits : k <= j
         IN  SubSeq(s, 1, i - 1) \o new
             \o ReplaceFrom(SubSeq(s, i + Len(old), Len(s)), old, new,
                            {k - (i + Len(old) - 1) : k \in {h \in hits : h >= i + Len(old)}})

Replace(s, old, new) ==
    ReplaceFrom(s, old, new, {i \in 1..Len(s) : StartsAt(s, old, i)})

fixes ==
    << [bad |-> <<"e","x","p","l","a","i","n">>,
        good |-> <<"r","e","w","r","i","t","e"," ","w","i","t","h"," ","c","o","d","e">>],
       [bad |-> <<"d","i","s","c","u","s","s">>,
        good |-> <<"g","e","n","e","r","a","t","e"," ","i","m","p","l","e","m","e","n","t","a","t","i","o","n">>],
       [bad |-> <<"o","u","t","l","i","n","e">>,
        good |-> <<"i","m","p","l","e","m","e","n","t"," ","c","o","d","e"," ","f","o","r">>],
       [bad |-> <<"d","e","s","c","r","i","b","e">>,
        good |-> <<"c","r","e","a","t","e"," ","c","o","d","e"," ","t","h","a","t">>],
       [bad |-> <<"a","n","a","l","y","z","e">>,
        good |-> <<"m","o","d","i","f","y"," ","t","h","e"," ","c","o","d","e"," ","t","o">>],
       [bad |-> <<"r","e","v","i","e","w">>,
        good |-> <<"u","p","d","a","t","e"," ","t","h","e"," ","c","o","d","e"," ","t","o">>],
       [bad |-> <<"e","x","a","m","i","n","e">>,
        good |-> <<"t","r","a","n","s","f","o","r","m"," ","t","h","e"," ","c","o","d","e"," ","t","o">>],
       [bad |-> <<"c","o","n","s","i","d","e","r">>,
        good |-> <<"i","m","p","l","e","m","e","n","t"," ","t","h","e"," ","f","o","l","l","o","w","i","n","g">>] >>

urgency_phrases == {
    <<"I","M","P","O","R","T","A","N","T",":"," ">>,
    <<"C","R","I","T","I","C","A","L",":"," ">>,
    <<"U","R","G","E","N","T",":"," ">>,
    <<"P","L","E","A","S","E",":"," ">> }

only_code_directive ==
    <<"\n","\n","I","M","P","O","R","T","A","N","T",":"," ","P","r","o","v","i","d","e"," ","O","N","L","Y"," ","t","h","e"," ","m","o","d","i","f","i","e","d"," ","c","o","d","e"," ","w","i","t","h","o","u","t"," ","e","x","p","l","a","n","a","t","i","o","n","s","."," ","F","o","c","u","s"," ","o","n"," ","t","h","e"," ","a","c","t","u","a","l"," ","i","m","p","l","e","m","e","n","t","a","t","i","o","n",".">>

RECURSIVE ApplyFixes(_, _)
ApplyFixes(corrected, k) ==
    IF k > Len(fixes) THEN corrected
    ELSE IF Contains(Lower(corrected), fixes[k].bad)
    THEN ApplyFixes(Replace(Replace(corrected, fixes[k].bad, fixes[k].good),
                            Title(fixes[k].bad), Title(fixes[k].good)), k + 1)
    ELSE ApplyFixes(corrected, k + 1)

AddUrgency(corrected, attempt) ==
    IF attempt > 1 /\ ~ContainsAny(corrected, urgency_phrases)
    THEN <<"U","R","G","E","N","T",":"," ">> \o corrected
    ELSE corrected

auto_correct_prompt(prompt, attempt) ==
    AddUrgency(ApplyFixes(prompt, 1), attempt)
    \o (IF attempt >= 3 THEN only_code_directive ELSE <<>>)

default_chain == <<"anthropic", "groq", "fallback">>

\* provider_failures of get_optimal_provider_chain, as the dict keeps it: the
\* providers that failed for file_path, in the order of their first failure
RECURSIVE FailedProviders(_, _, _, _)
FailedProviders(ledger, file_path, i, seen) ==
    IF i > Len(ledger) THEN seen
    ELSE IF ledger[i].file = file_path
            /\ ~\E k \in 1..Len(seen) : seen[k] = ledger[i].provider
    THEN FailedProviders(ledger, file_path, i + 1, Append(seen, ledger[i].provider))
    ELSE FailedProviders(ledger, file_path, i + 1, seen)

FailureCount(ledger, file_path, provider) ==
    Cardinality({i \in 1..Len(ledger) :
                    ledger[i].file = file_path /\ ledger[i].provider = provider})

\* sorted(provider_failures.items(), key=lambda x: x[1]): stable, ascending
RECURSIVE SortedByCount(_, _, _)
SortedByCount(providers, ledger, file_path) ==
    IF providers = <<>> THEN <<>>
    ELSE LET least == CHOOSE i \in 1..Len(providers) :
                 \A j \in 1..Len(providers) :
                     \/ FailureCount(ledger, file_path, providers[i])
                            < FailureCount(ledger, file_path, providers[j])
                     \/ (FailureCount(ledger, file_path, providers[i])
                            = FailureCount(ledger, file_path, providers[j]) /\ i <= j)
         IN  <<providers[least]>>
             \o SortedByCount([k \in 1..(Len(providers) - 1) |->
                                  IF k < least THEN providers[k] ELSE providers[k + 1]],
                              ledger, file_path)

InSeq(x, s) == \E k \in 1..Len(s) : s[k] = x

RankChain(sorted_providers) ==
    LET new_chain == SelectSeq(sorted_providers, LAMBDA p : InSeq(p, default_chain))
    IN  new_chain \o SelectSeq(default_chain, LAMBDA p : ~InSeq(p, new_chain))

get_optimal_provider_chain(ledger, file_path, prompt) ==
    IF FailedProviders(ledger, file_path, 1, <<>>) # <<>>
    THEN RankChain(SortedByCount(FailedProviders(ledger, file_path, 1, <<>>), ledger,
                                 file_path))
    ELSE default_chain

-----------------------------------------------------------------------------
(* engine/retry_engine.py: RetryEngine.inject_with_retry *)

UrgentPrompt == <<"U","R","G","E","N","T",":"," ","f","i","x"," ","b","u","g","s">>

RetryPrompts == {Prompt1, UrgentPrompt}

WeakResponseReason == "Weak response"

TimeoutMsg == "timeout"

\* RetryEngine(): the default engine, and an engine built with other limits
DefaultEngine == [max_attempts |-> 3, max_providers |-> 3]

NarrowEngine == [max_attempts |-> 4, max_providers |-> 2]

\* RetryEngine(max_attempts=1, max_providers=1)
SingleEngine == [max_attempts |-> 1, max_providers |-> 1]

Engines == {DefaultEngine, NarrowEngine, SingleEngine}

Attempts == 1..4

\* provider_chain=None, or a chain the caller passes
NoChain == <<>>

ExplicitChain == <<"groq", "mistral", "anthropic", "fallback">>

ProviderChains == {NoChain, ExplicitChain}

RetryProviders == {"anthropic", "groq", "fallback", "mistral"}

\* what one call of query_model_func does
Raises(msg) == [kind |-> "raise", text |-> <<>>, msg |-> msg]

Returns(text) == [kind |-> "text", text |-> text, msg |-> ""]

\* query_model_func: the answer to the call for a provider in an attempt
QueryDown == [p \in RetryProviders, a \in Attempts |-> Raises(TimeoutMsg)]

QueryWeak == [p \in RetryProviders, a \in Attempts |-> Returns(NoChangesText)]

QueryGood == [p \in RetryProviders, a \in Attempts |-> Returns(GoodCode)]

QueryMixed ==
    [p \in RetryProviders, a \in Attempts |->
        IF p = "anthropic" THEN Raises(TimeoutMsg)
        ELSE IF p = "groq" THEN Returns(NoChangesText)
        ELSE Returns(GoodCode)]

QueryLate ==
    [p \in RetryProviders, a \in Attempts |->
        IF a = 1 THEN Returns(<<>>)
        ELSE IF p = "groq" THEN Returns(GoodCode)
        ELSE Raises(TimeoutMsg)]

QueryModels == {QueryDown, QueryWeak, QueryGood, QueryMixed, QueryLate}

\* is_weak_response and auto_correct_prompt, computed once for the texts and
\* the instructions of the model
ValidatorWeakKnown == {t \in KnownTexts : is_weak_response(t)}

ValidatorIsWeak(t) ==
    IF t \in KnownTexts THEN t \in ValidatorWeakKnown ELSE is_weak_response(t)

CorrectedPrompts == [p \in RetryPrompts |-> [a \in Attempts |-> auto_correct_prompt(p, a)]]

\* current_prompt of an attempt
current_prompt(prompt, attempt) ==
    IF attempt > 1
    THEN (IF prompt \in RetryPrompts /\ attempt \in Attempts
          THEN CorrectedPrompts[prompt][attempt]
          ELSE auto_correct_prompt(prompt, attempt))
    ELSE prompt

\* a chain that is never cut; C5 must tell it from LimitChain
LimitChainUncapped(provider_chain, max_providers) == provider_chain

\* provider_chain[:self.max_providers]
LimitChain(provider_chain, max_providers) ==
    SubSeq(provider_chain, 1,
           IF Len(provider_chain) < max_providers THEN Len(provider_chain) ELSE max_providers)

\* a loop that validates nothing; C6 must tell it from ResponseUsable
AnyResponseUsable(response) == TRUE

\* the response passes the validation of the retry loop
ResponseUsable(response) == ~ValidatorIsWeak(response)

\* one provider of one attempt.  st is the ledger, the trace of the slots
\* visited so far and the result, if the loop has returned.
Slot(attempt, provider, dup, action, logged) ==
    [attempt |-> attempt, provider |-> provider, dup |-> dup, action |-> action,
     logged |-> logged]

NoResult == [kind |-> "running", text |-> <<>>]

RetrySkip(st, attempt, provider, dup) ==
    [st EXCEPT !.trace = Append(@, Slot(attempt, provider, dup, "skip", 0))]

RetryFailed(st, attempt, provider, dup, ledger, action) ==
    [st EXCEPT !.ledger = ledger,
               !.trace = Append(@, Slot(attempt, provider, dup, action,
                                         Len(ledger) - Len(st.ledger)))]

RetryReturn(st, attempt, provider, dup, response) ==
    [st EXCEPT !.trace = Append(@, Slot(attempt, provider, dup, "return", 0)),
               !.result = [kind |-> "returned", text |-> response]]

RetryAnswer(st, file_path, prompt, attempt, provider, dup, answer) ==
    IF answer.kind = "raise"
    THEN RetryFailed(st, attempt, provider, dup,
                     log_failure(st.ledger, file_path, prompt, provider, answer.msg), "raise")
    ELSE IF ~ResponseUsable(answer.text)
    THEN RetryFailed(st, attempt, provider, dup,
                     log_failure(st.ledger, file_path, prompt, provider, WeakResponseReason),
                     "weak")
    ELSE RetryReturn(st, attempt, provider, dup, answer.text)

\* dup records, for the claims, whether the ledger held a record with this
\* file, instruction text and provider when the slot began
RetrySlot(st, file_path, prompt, attempt, provider, dup, query_model_func) ==
    IF is_duplicate_failure(st.ledger, file_path, prompt, provider)
    THEN RetrySkip(st, attempt, provider, dup)
    ELSE RetryAnswer(st, file_path, prompt, attempt, provider, dup,
                     query_model_func[provider, attempt])

LedgerHolds(ledger, file_path, prompt, provider) ==
    \E i \in 1..Len(ledger) :
        /\ ledger[i].file = file_path
        /\ ledger[i].prompt = prompt
        /\ ledger[i].provider = provider

RECURSIVE RetryLoop(_, _, _, _, _, _, _, _)
RetryLoop(st, file_path, prompt, provider_chain, max_attempts, query_model_func, attempt, j) ==
    IF st.result.kind = "returned" THEN st
    ELSE IF attempt > max_attempts THEN [st EXCEPT !.result = [kind |-> "raised", text |-> <<>>]]
    ELSE IF j > Len(provider_chain)
    THEN RetryLoop(st, file_path, prompt, provider_chain, max_attempts, query_model_func,
                   attempt + 1, 1)
    ELSE RetryLoop(RetrySlot(st, file_path, current_prompt(prompt, attempt), attempt,
                             provider_chain[j],
                             LedgerHolds(st.ledger, file_path,
                                         current_prompt(prompt, attempt), provider_chain[j]),
                             query_model_func),
                   file_path, prompt, provider_chain, max_attempts, query_model_func,
                   attempt, j + 1)

\* the chain the loop starts from, before the limit
StartChain(ledger, file_path, prompt, provider_chain) ==
    IF provider_chain = NoChain THEN get_optimal_provider_chain(ledger, file_path, prompt)
    ELSE provider_chain

inject_with_retry(ledger, engine, file_path, prompt, query_model_func, provider_chain) ==
    RetryLoop([ledger |-> ledger, trace |-> <<>>, result |-> NoResult],
              file_path, prompt,
              LimitChain(StartChain(ledger, file_path, prompt, provider_chain),
                         engine.max_providers),
              engine.max_attempts, query_model_func, 1, 1)

MaxLedger == 1

NoRetry ==
    [op |-> "none", file |-> PathA, prompt |-> <<>>, given |-> NoChain, start |-> <<>>,
     chain |-> <<>>, engine |-> DefaultEngine, allRaise |-> FALSE, allWeak |-> FALSE,
     repeat |-> FALSE,
     trace |-> <<>>, result |-> NoResult]

\* the responses handed to the gates: runs of x of every length up to
\* MaxGateLen, and short answers with and without code
MaxGateLen == 120

Xs(n) == [i \in 1..n |-> "x"]

NoneText == <<"n","o","n","e">>

ShortCode == <<"d","e","f"," ","f","(",")",":","\n"," "," "," "," ","r","e","t","u","r","n"," ","1">>

HelloCode == <<"d","e","f"," ","h","e","l","l","o","(",")",":","\n"," "," "," "," ","p","r","i","n","t","(","'","H","e","l","l","o",","," ","W","o","r","l","d","!","'",")">>

ConstCode == <<"c","o","n","s","t"," ","x"," ","="," ","1",";","\n","l","e","t"," ","y"," ","="," ","2",";">>

GateResponses ==
    {Xs(n) : n \in 0..MaxGateLen}
        \cup {NoneText, ShortCode, HelloCode, ConstCode, GoodCode, NoChangesText}

\* the answers of the two gates, computed once for every response
GateAnswers ==
    [response \in GateResponses |->
        [weak |-> is_weak_response(response),
         quality_weak |-> is_response_weak(response)]]

NoGate == [op |-> "none", response |-> <<>>, weak |-> FALSE, quality_weak |-> FALSE]

InitRetry ==
    /\ failures = <<>>
    /\ lastRetry = NoRetry
    /\ lastGate = NoGate

\* every call the query function can receive from this invocation returns a
\* text the validator classifies weak
AllCallsWeak(query_model_func, provider_chain, max_attempts) ==
    \A j \in 1..Len(provider_chain) : \A a \in 1..max_attempts :
        /\ query_model_func[provider_chain[j], a].kind = "text"
        /\ ValidatorIsWeak(query_model_func[provider_chain[j], a].text)

\* every call the query function can receive from this invocation raises
AllCallsRaise(query_model_func, provider_chain, max_attempts) ==
    \A j \in 1..Len(provider_chain) : \A a \in 1..max_attempts :
        query_model_func[provider_chain[j], a].kind = "raise"

InjectWithRetryDone(engine, file_path, prompt, query_model_func, provider_chain, start, st) ==
    /\ failures' = st.ledger
    /\ lastRetry' =
           [op |-> "inject_with_retry", file |-> file_path, prompt |-> prompt,
            given |-> provider_chain, start |-> start,
            chain |-> LimitChain(start, engine.max_providers), engine |-> engine,
            allRaise |-> AllCallsRaise(query_model_func,
                                       LimitChain(start, engine.max_providers),
                                       engine.max_attempts),
            allWeak |-> AllCallsWeak(query_model_func,
                                     LimitChain(start, engine.max_providers),
                                     engine.max_attempts),
            repeat |-> /\ lastRetry.op = "inject_with_retry"
                       /\ lastRetry.result.kind = "returned"
                       /\ lastRetry.file = file_path
                       /\ lastRetry.prompt = prompt,
            trace |-> st.trace, result |-> st.result]

InjectWithRetry(engine, file_path, prompt, query_model_func, provider_chain) ==
    /\ Len(failures) <= MaxLedger
    /\ InjectWithRetryDone(engine, file_path, prompt, query_model_func, provider_chain,
                           StartChain(failures, file_path, prompt, provider_chain),
                           inject_with_retry(failures, engine, file_path, prompt,
                                             query_model_func, provider_chain))

InjectWithRetryStep ==
    /\ UNCHANGED lastGate
    /\ \E engine \in Engines, file_path \in Paths, prompt \in RetryPrompts,
          query_model_func \in QueryModels, provider_chain \in ProviderChains :
           InjectWithRetry(engine, file_path, prompt, query_model_func, provider_chain)
    /\ UNCHANGED <<injectVars, queueVars, trackerVars, dirVars, toolVars>>

\* is_weak_response of the validator and is_response_weak of the injector,
\* applied to one response
ClassifyResponse(response) ==
    /\ lastGate' = [op |-> "is_weak", response |-> response,
                    weak |-> GateAnswers[response].weak,
                    quality_weak |-> GateAnswers[response].quality_weak]
    /\ UNCHANGED <<failures, lastRetry>>

GateStep ==
    /\ \E response \in GateResponses : ClassifyResponse(response)
    /\ UNCHANGED <<injectVars, queueVars, trackerVars, dirVars, toolVars>>

\* RetryEngine.clear_failure_log
ClearFailureLog ==
    /\ failures' = <<>>
    /\ UNCHANGED <<lastRetry, lastGate>>
    /\ UNCHANGED <<injectVars, queueVars, trackerVars, dirVars, toolVars>>

-----------------------------------------------------------------------------
(* engine/injection_queue.py: InjectionQueue.  An item carries uid, the      *)
(* identity of the dict object add_injection_result created; the code has no *)
(* such field, and the claims use it to follow an item through the lists.    *)

MaxItems == 3

\* str(uuid.uuid4())[:8]: some id, not checked against the ids in use
Ids == {"1f0c9a3e", "77b2d4c1"}

\* the arguments add_injection_result is called with
QueueResults ==
    { [file_path |-> PathA, original |-> Code1, injected |-> GoodCode, status |-> "success",
       provider |-> "anthropic", with_context |-> FALSE],
      [file_path |-> PathB, original |-> Code1, injected |-> NoChangesText, status |-> "weak",
       provider |-> "groq", with_context |-> TRUE] }

injection_result(uid, id, r) ==
    [uid |-> uid, id |-> id, file_path |-> r.file_path, original |-> r.original,
     injected |-> r.injected, status |-> r.status, provider |-> r.provider,
     with_context |-> r.with_context, approved |-> FALSE, rejected |-> FALSE]

\* the lists and the files of the queue, as one value
QueueState(p, a, r, side) == [pending |-> p, approved |-> a, rejected |-> r, side |-> side]

\* a document that keeps the pending list only; C21 must tell it from queue_data
queue_data_pending(q) == [pending |-> q.pending, approved |-> <<>>, rejected |-> <<>>]

\* _save_queue: the document written
queue_data(q) == [pending |-> q.pending, approved |-> q.approved, rejected |-> q.rejected]

\* index of the first pending item with this id, 0 if there is none
FirstWithId(list, injection_id) ==
    IF \E i \in 1..Len(list) : list[i].id = injection_id
    THEN CHOOSE i \in 1..Len(list) :
             /\ list[i].id = injection_id
             /\ \A k \in 1..(i - 1) : list[k].id # injection_id
    ELSE 0

Pop(list, i) == [k \in 1..(Len(list) - 1) |-> IF k < i THEN list[k] ELSE list[k + 1]]

\* _save_approved_file
save_approved_file(side, injection) ==
    [f \in DOMAIN side \cup {injection.file_path} |->
        IF f = injection.file_path THEN injection.injected ELSE side[f]]

\* an approval that leaves the item in pending; C10 must tell it from ApproveAt
ApproveAtKeepsPending(q, i) ==
    [q EXCEPT !.approved = Append(@, [q.pending[i] EXCEPT !.approved = TRUE]),
              !.side = save_approved_file(@, q.pending[i])]

ApproveAt(q, i) ==
    [q EXCEPT !.approved = Append(@, [q.pending[i] EXCEPT !.approved = TRUE]),
              !.pending = Pop(@, i),
              !.side = save_approved_file(@, q.pending[i])]

RejectAt(q, i) ==
    [q EXCEPT !.rejected = Append(@, [q.pending[i] EXCEPT !.rejected = TRUE]),
              !.pending = Pop(@, i)]

\* approve_injection and reject_injection: the queue afterwards, the value
\* returned and the item moved
approve_injection(q, injection_id) ==
    IF FirstWithId(q.pending, injection_id) = 0
    THEN [q |-> q, ok |-> FALSE, uid |-> 0]
    ELSE [q |-> ApproveAt(q, FirstWithId(q.pending, injection_id)), ok |-> TRUE,
          uid |-> q.pending[FirstWithId(q.pending, injection_id)].uid]

reject_injection(q, injection_id) ==
    IF FirstWithId(q.pending, injection_id) = 0
    THEN [q |-> q, ok |-> FALSE, uid |-> 0]
    ELSE [q |-> RejectAt(q, FirstWithId(q.pending, injection_id)), ok |-> TRUE,
          uid |-> q.pending[FirstWithId(q.pending, injection_id)].uid]

\* the pending items approve_all_strong_injections selects
success_injections(list) == SelectSeq(list, LAMBDA inj : inj.status = "success")

\* strong is the number of pending items of status success when the call began
NoQ ==
    [op |-> "none", id |-> "", ok |-> FALSE, count |-> 0, uid |-> 0, returned |-> TRUE,
     strong |-> 0,
     prevOp |-> "none", prevId |-> "", prevOk |-> FALSE, prevUid |-> 0]

QDone(op, id, ok, count, uid, returned) ==
    [op |-> op, id |-> id, ok |-> ok, count |-> count, uid |-> uid, returned |-> returned,
     strong |-> IF op = "approve_all" THEN Len(success_injections(pending)) ELSE 0,
     prevOp |-> lastQ.op, prevId |-> lastQ.id, prevOk |-> lastQ.ok, prevUid |-> lastQ.uid]

\* two threads, one in approve_injection(id) and one in reject_injection(id);
\* the body of each method runs inside "with self.lock"
CallerNames == {"approve", "reject"}

NoCallers == [t \in CallerNames |-> [pc |-> "none", id |-> "", ok |-> FALSE, uid |-> 0]]

InitQueue ==
    /\ pending = <<>>
    /\ approved = <<>>
    /\ rejected = <<>>
    /\ queueFile = queue_data(QueueState(<<>>, <<>>, <<>>, <<>>))
    /\ sideFiles = <<>>
    /\ lock = "free"
    /\ created = 0
    /\ lastQ = NoQ
    /\ callers = NoCallers

QueueNow == QueueState(pending, approved, rejected, sideFiles)

\* the lists change to q and the document is saved
QueueBecomes(q) ==
    /\ pending' = q.pending
    /\ approved' = q.approved
    /\ rejected' = q.rejected
    /\ sideFiles' = q.side
    /\ queueFile' = queue_data(q)

AddInjectionResult(id, r) ==
    /\ lock = "free"
    /\ created < MaxItems
    /\ created' = created + 1
    /\ QueueBecomes([QueueNow EXCEPT !.pending = Append(@, injection_result(created + 1, id, r))])
    /\ lastQ' = QDone("add", id, TRUE, 0, created + 1, TRUE)
    /\ UNCHANGED lock

\* a call that finds no pending item with the id changes and saves nothing
QueueMoved(res) ==
    IF res.ok THEN QueueBecomes(res.q)
    ELSE UNCHANGED <<pending, approved, rejected, sideFiles, queueFile>>

ApproveInjection(injection_id) ==
    /\ lock = "free"
    /\ QueueMoved(approve_injection(QueueNow, injection_id))
    /\ lastQ' = QDone("approve", injection_id, approve_injection(QueueNow, injection_id).ok, 0,
                      approve_injection(QueueNow, injection_id).uid, TRUE)
    /\ UNCHANGED <<lock, created>>

RejectInjection(injection_id) ==
    /\ lock = "free"
    /\ QueueMoved(reject_injection(QueueNow, injection_id))
    /\ lastQ' = QDone("reject", injection_id, reject_injection(QueueNow, injection_id).ok, 0,
                      reject_injection(QueueNow, injection_id).uid, TRUE)
    /\ UNCHANGED <<lock, created>>

\* approve_all_strong_injections takes the lock and, for the first pending
\* item of status success, calls approve_injection, which waits for the same
\* threading.Lock: the call never returns and the lock stays held
ApproveAllStrongInjections ==
    /\ lock = "free"
    /\ IF success_injections(pending) = <<>>
       THEN /\ lastQ' = QDone("approve_all", "", FALSE, 0, 0, TRUE)
            /\ UNCHANGED lock
       ELSE /\ lastQ' = QDone("approve_all", "", FALSE, 0, 0, FALSE)
            /\ lock' = "held"
    /\ UNCHANGED <<pending, approved, rejected, sideFiles, queueFile, created>>

\* clear_queue: the lists afterwards, the count returned, and whether the
\* queue type is one the method knows (any other returns 0 and saves nothing)
QueueTypes == {"pending", "approved", "rejected", "all", "done"}

clear_queue(q, queue_type) ==
    CASE queue_type = "pending" ->
             [q |-> [q EXCEPT !.pending = <<>>], count |-> Len(q.pending), ok |-> TRUE]
      [] queue_type = "approved" ->
             [q |-> [q EXCEPT !.approved = <<>>], count |-> Len(q.approved), ok |-> TRUE]
      [] queue_type = "rejected" ->
             [q |-> [q EXCEPT !.rejected = <<>>], count |-> Len(q.rejected), ok |-> TRUE]
      [] queue_type = "all" ->
             [q |-> [q EXCEPT !.pending = <<>>, !.approved = <<>>, !.rejected = <<>>],
              count |-> Len(q.pending) + Len(q.approved) + Len(q.rejected), ok |-> TRUE]
      [] OTHER -> [q |-> q, count |-> 0, ok |-> FALSE]

ClearQueue(queue_type) ==
    /\ lock = "free"
    /\ QueueMoved(clear_queue(QueueNow, queue_type))
    /\ lastQ' = QDone("clear", queue_type, clear_queue(QueueNow, queue_type).ok,
                      clear_queue(QueueNow, queue_type).count, 0, TRUE)
    /\ UNCHANGED <<lock, created>>

\* _load_queue: the three lists read from the document
load_queue(doc) == [pending |-> doc.pending, approved |-> doc.approved, rejected |-> doc.rejected]

\* InjectionQueue(): a new process constructs the queue on the file the last
\* one left; its lock is a new lock
NewInjectionQueue ==
    /\ pending' = load_queue(queueFile).pending
    /\ approved' = load_queue(queueFile).approved
    /\ rejected' = load_queue(queueFile).rejected
    /\ lock' = "free"
    /\ lastQ' = QDone("load", "", TRUE, 0, 0, TRUE)
    /\ UNCHANGED <<queueFile, sideFiles, created>>

\* both calls are made on the id of a pending item
CallsBegin ==
    /\ callers = NoCallers
    /\ lock = "free"
    /\ \E i \in 1..Len(pending) :
          callers' = [t \in CallerNames |->
                         [pc |-> "start", id |-> pending[i].id, ok |-> FALSE, uid |-> 0]]
    /\ UNCHANGED <<pending, approved, rejected, queueFile, sideFiles, lock, created, lastQ>>

\* with self.lock: the thread waits until the lock is free and takes it
LockAcquire(t) ==
    /\ callers[t].pc = "start"
    /\ lock = "free"
    /\ lock' = "held"
    /\ callers' = [callers EXCEPT ![t].pc = "locked"]
    /\ UNCHANGED <<pending, approved, rejected, queueFile, sideFiles, created, lastQ>>

CallOf(t, q, injection_id) ==
    IF t = "approve" THEN approve_injection(q, injection_id)
    ELSE reject_injection(q, injection_id)

\* the body of the method and the end of the with block
LockedBody(t) ==
    /\ callers[t].pc = "locked"
    /\ QueueMoved(CallOf(t, QueueNow, callers[t].id))
    /\ lastQ' = QDone(t, callers[t].id, CallOf(t, QueueNow, callers[t].id).ok, 0,
                      CallOf(t, QueueNow, callers[t].id).uid, TRUE)
    /\ lock' = "free"
    /\ callers' = [callers EXCEPT ![t].pc = "done",
                                  ![t].ok = CallOf(t, QueueNow, callers[t].id).ok,
                                  ![t].uid = CallOf(t, QueueNow, callers[t].id).uid]
    /\ UNCHANGED created

\* the module-level inject_with_retry (retry_engine.py lines 233-273): the
\* global engine runs, and what it returned is added to the queue
MaxQueued == 2

\* lines 257-260: the provider named in the queue item
QueuedProvider(provider_chain) ==
    IF provider_chain # NoChain THEN provider_chain[1] ELSE "retry-engine"

QueuedResult(file_path, provider_chain, st) ==
    [file_path |-> file_path, original |-> disk[file_path], injected |-> st.result.text,
     status |-> IF ValidatorIsWeak(st.result.text) THEN "weak" ELSE "success",
     provider |-> QueuedProvider(provider_chain), with_context |-> FALSE]

InjectWithRetryQueued(file_path, prompt, query_model_func, provider_chain, id, st) ==
    /\ InjectWithRetryDone(DefaultEngine, file_path, prompt, query_model_func, provider_chain,
                           StartChain(failures, file_path, prompt, provider_chain), st)
    /\ IF st.result.kind = "returned"
       THEN /\ created' = created + 1
            /\ QueueBecomes([QueueNow EXCEPT !.pending =
                   Append(@, injection_result(created + 1, id,
                                              QueuedResult(file_path, provider_chain, st)))])
            /\ lastQ' = QDone("add", id, TRUE, 0, created + 1, TRUE)
            /\ UNCHANGED <<lock, callers>>
       ELSE UNCHANGED queueVars

ModuleInjectWithRetry(file_path, prompt, query_model_func, provider_chain, id) ==
    /\ Len(failures) <= MaxLedger
    /\ created < MaxQueued
    /\ lock = "free"
    /\ InjectWithRetryQueued(file_path, prompt, query_model_func, provider_chain, id,
                             inject_with_retry(failures, DefaultEngine, file_path, prompt,
                                               query_model_func, provider_chain))

ModuleInjectWithRetryStep ==
    /\ UNCHANGED lastGate
    /\ \E file_path \in Paths, prompt \in RetryPrompts, query_model_func \in QueryModels,
          provider_chain \in ProviderChains, id \in Ids :
           ModuleInjectWithRetry(file_path, prompt, query_model_func, provider_chain, id)
    /\ UNCHANGED <<injectVars, trackerVars, dirVars, toolVars>>

CallsBeginStep ==
    /\ CallsBegin
    /\ UNCHANGED <<injectVars, retryVars, trackerVars, dirVars, toolVars>>

LockAcquireStep ==
    /\ \E t \in CallerNames : LockAcquire(t)
    /\ UNCHANGED <<injectVars, retryVars, trackerVars, dirVars, toolVars>>

LockedBodyStep ==
    /\ \E t \in CallerNames : LockedBody(t)
    /\ UNCHANGED <<injectVars, retryVars, trackerVars, dirVars, toolVars>>

AddStep ==
    /\ \E id \in Ids, r \in QueueResults : AddInjectionResult(id, r)
    /\ UNCHANGED <<injectVars, retryVars, trackerVars, dirVars, toolVars, callers>>

ApproveStep ==
    /\ \E id \in Ids : ApproveInjection(id)
    /\ UNCHANGED <<injectVars, retryVars, trackerVars, dirVars, toolVars, callers>>

RejectStep ==
    /\ \E id \in Ids : RejectInjection(id)
    /\ UNCHANGED <<injectVars, retryVars, trackerVars, dirVars, toolVars, callers>>

ApproveAllStep ==
    /\ ApproveAllStrongInjections
    /\ UNCHANGED <<injectVars, retryVars, trackerVars, dirVars, toolVars, callers>>

ClearStep ==
    /\ \E queue_type \in QueueTypes : ClearQueue(queue_type)
    /\ UNCHANGED <<injectVars, retryVars, trackerVars, dirVars, toolVars, callers>>

LoadStep ==
    /\ NewInjectionQueue
    /\ UNCHANGED <<injectVars, retryVars, trackerVars, dirVars, toolVars, callers>>

-----------------------------------------------------------------------------
(* engine/dependency_tracker.py.  A dict is the sequence of its items in     *)
(* insertion order.  What _extract_dependencies finds in a file is given by  *)
(* the environment.                                                           *)

PathC == <<"c",".","p","y">>

\* every path of the analysed folder, in the order sorted() gives them
PathOrder == <<PathA, PathB, PathC>>

\* sorted(files) and the iteration order taken for a set of paths
SortedPaths(files) == SelectSeq(PathOrder, LAMBDA p : p \in files)

Range(s) == {s[i] : i \in 1..Len(s)}

RECURSIVE Concat(_)
Concat(lists) ==
    IF lists = <<>> THEN <<>> ELSE Head(lists) \o Concat(Tail(lists))

Keys(graph) == [i \in 1..Len(graph) |-> graph[i].file]

\* graph.get(file, [])
Deps(graph, file) ==
    IF file \in Range(Keys(graph))
    THEN graph[CHOOSE i \in 1..Len(graph) : graph[i].file = file].deps
    ELSE <<>>

\* the reverse graph build_dependency_graph fills (lines 62-63)
ReverseOf(graph) ==
    [dep \in UNION {Range(graph[i].deps) : i \in 1..Len(graph)} |->
        {file \in Range(Keys(graph)) : dep \in Range(Deps(graph, file))}]

\* reverse_graph.get(file, [])
Dependents(reverse, file) == IF file \in DOMAIN reverse THEN reverse[file] ELSE {}

\* graphlib.TopologicalSorter: the keys of _node2info in insertion order
RECURSIVE FirstMentions(_)
FirstMentions(s) ==
    IF s = <<>> THEN <<>>
    ELSE LET before == FirstMentions(SubSeq(s, 1, Len(s) - 1))
         IN  IF InSeq(s[Len(s)], before) THEN before ELSE Append(before, s[Len(s)])

node2info(graph) ==
    FirstMentions(Concat([i \in 1..Len(graph) |-> <<graph[i].file>> \o graph[i].deps]))

\* _NodeInfo.successors and _NodeInfo.npredecessors after every add()
successors(graph, node) ==
    Concat([i \in 1..Len(graph) |->
               [j \in 1..Len(SelectSeq(graph[i].deps, LAMBDA d : d = node)) |->
                   graph[i].file]])

npredecessors(graph) == [node \in Range(node2info(graph)) |-> Len(Deps(graph, node))]

\* the nodes reached from the nodes of from by one or more edges
RECURSIVE ReachedFrom(_, _)
ReachedFrom(graph, from) ==
    LET more == from \cup UNION {Range(Deps(graph, n)) : n \in from}
    IN  IF more = from THEN from ELSE ReachedFrom(graph, more)

\* _find_cycle returns a cycle
find_cycle(graph) ==
    \E node \in Range(node2info(graph)) :
        node \in ReachedFrom(graph, Range(Deps(graph, node)))

\* done(*nodes): succ lists the successors of the nodes in order
RECURSIVE done(_, _, _, _)
done(succ, i, npred, ready) ==
    IF i > Len(succ) THEN [npred |-> npred, ready |-> ready]
    ELSE done(succ, i + 1, [npred EXCEPT ![succ[i]] = @ - 1],
              IF npred[succ[i]] = 1 THEN Append(ready, succ[i]) ELSE ready)

\* the loop of static_order: get_ready, yield, done
RECURSIVE StaticOrderLoop(_, _, _, _)
StaticOrderLoop(graph, npred, ready, order) ==
    IF ready = <<>> THEN order
    ELSE StaticOrderLoop(
             graph,
             done(Concat([i \in 1..Len(ready) |-> successors(graph, ready[i])]), 1,
                  npred, <<>>).npred,
             done(Concat([i \in 1..Len(ready) |-> successors(graph, ready[i])]), 1,
                  npred, <<>>).ready,
             order \o ready)

\* the nodes in the order they were added, not sorted
StaticOrderAsAdded(graph) == node2info(graph)

\* prepare() and static_order() of a sorter without a cycle
static_order(graph) ==
    StaticOrderLoop(graph, npredecessors(graph),
                    SelectSeq(node2info(graph), LAMBDA n : Len(Deps(graph, n)) = 0), <<>>)

\* the keys as the dict holds them, not sorted
FallbackUnsorted(graph) == Keys(graph)

\* list.sort(key = number of dependencies) is stable
fallback_injection_order(graph) ==
    Concat([n \in 1..(Len(Concat([i \in 1..Len(graph) |-> graph[i].deps])) + 1) |->
               SelectSeq(Keys(graph), LAMBDA file : Len(Deps(graph, file)) = n - 1)])

calculate_injection_order(graph) ==
    IF find_cycle(graph) THEN fallback_injection_order(graph) ELSE static_order(graph)

\* entries that do not count the hops; C27 must tell them from Entries
EntriesAtStart(list, depth) == [i \in 1..Len(list) |-> [file |-> list[i], depth |-> 0]]

\* the queue entries get_context_files appends for the files of list
Entries(list, depth) == [i \in 1..Len(list) |-> [file |-> list[i], depth |-> depth]]

\* the files of list without the test of visited
UnvisitedOrNot(list, visited, current_depth, depth) ==
    SelectSeq(list, LAMBDA x : current_depth < depth)

\* the names added while one file is handled: the unvisited files of list
Unvisited(list, visited, current_depth, depth) ==
    SelectSeq(list, LAMBDA x : x \notin visited /\ current_depth < depth)

\* the while loop of get_context_files (lines 377-394)
RECURSIVE ContextLoop(_, _, _, _, _, _)
ContextLoop(graph, reverse, depth, queue, visited, context_files) ==
    IF queue = <<>> THEN context_files
    ELSE IF Head(queue).file \in visited \/ Head(queue).depth > depth
    THEN ContextLoop(graph, reverse, depth, Tail(queue), visited, context_files)
    ELSE ContextLoop(
             graph, reverse, depth,
             Tail(queue)
                 \o Entries(Unvisited(Deps(graph, Head(queue).file),
                                      visited \cup {Head(queue).file},
                                      Head(queue).depth, depth),
                            Head(queue).depth + 1)
                 \o Entries(Unvisited(SortedPaths(Dependents(reverse, Head(queue).file)),
                                      visited \cup {Head(queue).file},
                                      Head(queue).depth, depth),
                            Head(queue).depth + 1),
             visited \cup {Head(queue).file},
             context_files
                 \cup Range(Unvisited(Deps(graph, Head(queue).file),
                                      visited \cup {Head(queue).file},
                                      Head(queue).depth, depth))
                 \cup Range(Unvisited(SortedPaths(Dependents(reverse, Head(queue).file)),
                                      visited \cup {Head(queue).file},
                                      Head(queue).depth, depth)))

\* the set get_context_files turns into a list
get_context_files(graph, reverse, file_path, depth) ==
    IF file_path \notin Range(Keys(graph)) THEN {}
    ELSE ContextLoop(graph, reverse, depth, <<[file |-> file_path, depth |-> 0]>>, {}, {})

\* list(set): the elements once each, in an order the program does not fix
Listings(set) ==
    {list \in [1..Cardinality(set) -> set] : Range(list) = set}

\* what _extract_dependencies may find in one file
DepLists ==
    {<<>>, <<PathA>>, <<PathB>>, <<PathC>>, <<PathB, PathC>>, <<PathB, PathB>>}

\* the source files a folder may hold
Folders == {<<PathA, PathB, PathC>>, <<PathA, PathB>>}

MaxDepth == 2

Depths == -1..MaxDepth

\* the tracker after build_dependency_graph analysed the files of folder
TrackerOf(graph) ==
    [graph |-> graph, reverse |-> ReverseOf(graph),
     order |-> calculate_injection_order(graph)]

BuiltTrackers ==
    {TrackerOf([i \in 1..Len(folder) |-> [file |-> folder[i], deps |-> found[i]]]) :
        <<folder, found>> \in
            {x \in Folders \X UNION {[1..n -> DepLists] : n \in 2..3} :
                Len(x[1]) = Len(x[2])}}

NoContext == [op |-> "none", file_path |-> <<>>, depth |-> 0, result |-> <<>>]

InitTracker ==
    /\ dependency_graph = <<>>
    /\ reverse_graph = <<>>
    /\ injection_order = <<>>
    /\ lastContext = NoContext

BuildDependencyGraph ==
    /\ \E t \in BuiltTrackers :
          /\ dependency_graph' = t.graph
          /\ reverse_graph' = t.reverse
          /\ injection_order' = t.order
    /\ lastContext' = NoContext

GetContextFiles(file_path, depth) ==
    /\ \E result \in Listings(get_context_files(dependency_graph, reverse_graph,
                                                file_path, depth)) :
          lastContext' = [op |-> "get_context_files", file_path |-> file_path,
                          depth |-> depth, result |-> result]
    /\ UNCHANGED <<dependency_graph, reverse_graph, injection_order>>

BuildStep ==
    /\ BuildDependencyGraph
    /\ UNCHANGED <<injectVars, retryVars, queueVars, dirVars, toolVars>>

ContextStep ==
    /\ \E file_path \in Range(PathOrder), depth \in Depths :
          GetContextFiles(file_path, depth)
    /\ UNCHANGED <<injectVars, retryVars, queueVars, dirVars, toolVars>>

-----------------------------------------------------------------------------
(* engine/dependency_tracker.py: prepare_context_prompt. A file on disk is   *)
(* its number of characters, or Unreadable when open() raises; a part of the *)
(* prompt keeps the characters of the context file it shows and whether the  *)
(* truncation line follows them.                                             *)

Unreadable == -1

\* content[:n] of a text of len characters: how many characters it keeps
SliceTo(len, n) ==
    IF n >= 0 THEN (IF n < len THEN n ELSE len)
    ELSE (IF len + n > 0 THEN len + n ELSE 0)

\* one turn of the loop over context_files
ContextPart(st, context_file, len, max_tokens) ==
    IF len = Unreadable THEN st
    ELSE LET estimated_tokens == len \div 4
             over == st.total_tokens + estimated_tokens > max_tokens
             max_chars == (max_tokens - st.total_tokens) * 4
         IN  [context_parts |->
                  Append(st.context_parts,
                         [file |-> context_file,
                          content |-> Xs(IF over THEN SliceTo(len, max_chars) ELSE len),
                          truncated |-> over]),
              total_tokens |-> st.total_tokens + estimated_tokens]

RECURSIVE ContextParts(_, _, _, _, _)
ContextParts(st, context_files, i, files, max_tokens) ==
    IF i > Len(context_files) THEN st
    ELSE ContextParts(ContextPart(st, context_files[i], files[context_files[i]], max_tokens),
                      context_files, i + 1, files, max_tokens)

prepare_context_prompt(context_files, file_path, files, max_tokens) ==
    IF files[file_path] = Unreadable
    THEN [empty |-> TRUE, context_parts |-> <<>>, target_content |-> <<>>]
    ELSE [empty |-> FALSE,
          context_parts |-> ContextParts([context_parts |-> <<>>, total_tokens |-> 0],
                                         context_files, 1, files, max_tokens).context_parts,
          target_content |-> Xs(files[file_path])]

\* the sizes of the files the prompts are built from
FileSizes == {Unreadable, 3, 8, 12}

\* the budgets handed in
TokenBudgets == {1, 2, 3}

NoPrompt ==
    [op |-> "none", file_path |-> <<>>, depth |-> 0, max_tokens |-> 0,
     context_files |-> <<>>, empty |-> TRUE, context_parts |-> <<>>, target_content |-> <<>>]

PrepareContextPrompt(file_path, depth, max_tokens, files) ==
    /\ \E context_files \in Listings(get_context_files(dependency_graph, reverse_graph,
                                                       file_path, depth)) :
          LET r == prepare_context_prompt(context_files, file_path, files, max_tokens)
          IN  lastPrompt' = [op |-> "prepare_context_prompt", file_path |-> file_path,
                             depth |-> depth, max_tokens |-> max_tokens,
                             context_files |-> context_files, empty |-> r.empty,
                             context_parts |-> r.context_parts,
                             target_content |-> r.target_content]
    /\ UNCHANGED trackerVars

\* one prompt is built in a behaviour
PromptStep ==
    /\ lastPrompt.op = "none"
    /\ \E file_path \in Range(PathOrder), depth \in Depths, max_tokens \in TokenBudgets :
          \E files \in [Range(PathOrder) -> FileSizes] :
              PrepareContextPrompt(file_path, depth, max_tokens, files)
    /\ UNCHANGED <<injectVars, retryVars, queueVars, dirVars, markerVars, lastSplit, backupVars, pool>>

-----------------------------------------------------------------------------
(* engine/injector.py: handle_injection run by the workers of the thread     *)
(* pool of _process_files_parallel, one file each.  The module-level cache   *)
(* is a dict, kept as the list of its keys in insertion order; the cache     *)
(* file is a text of tokens, "{", one token for each entry, "," and "}".     *)
(* A text shorter than the buffer of the file object reaches the file when   *)
(* the file is closed, from offset 0 on.                                     *)

MaxWorkers == 2

Workers == 1..MaxWorkers

\* compute_fingerprint of the file and prompt of worker w, one for each file
KeyNames == <<"fp1", "fp2", "fp3", "fp4">>

WorkerKey(w) == KeyNames[w]

OldKey == "fp0"

\* json.dump of the entries with these keys
RECURSIVE JsonEntries(_)
JsonEntries(keys) ==
    IF keys = <<>> THEN <<>>
    ELSE IF Len(keys) = 1 THEN <<keys[1]>>
    ELSE <<keys[1], ",">> \o JsonEntries(Tail(keys))

json_dump(keys) == <<"{">> \o JsonEntries(keys) \o <<"}">>

\* what json.dump has written when the dict changes size under its iterator:
\* the first k entries, and no closing brace
json_dump_interrupted(keys, k) == <<"{">> \o JsonEntries(SubSeq(keys, 1, k))

\* a write of text at offset 0 of a file that holds old
WriteAtStart(old, text) == text \o SubSeq(old, Len(text) + 1, Len(old))

\* the file is the dump of some dict
IsJson(text) ==
    /\ Len(text) >= 2
    /\ text[1] = "{" /\ text[Len(text)] = "}"
    /\ Len(text) > 2 => Len(text) % 2 = 1
    /\ \A i \in 2..(Len(text) - 1) :
           IF i % 2 = 0 THEN text[i] \notin {"{", "}", ","} ELSE text[i] = ","

\* json.load at import: the keys of the cache the next process starts with
json_load(text) ==
    IF IsJson(text) THEN {text[i] : i \in {j \in 2..(Len(text) - 1) : j % 2 = 0}}
    ELSE {}

IdleWorker == [pc |-> "idle", answered |-> FALSE, result |-> "none", seen |-> <<>>, buffer |-> <<>>]

NoPool == [cache |-> <<>>, file |-> json_dump(<<>>), worker |-> [w \in Workers |-> IdleWorker]]

\* the cache file and the cache loaded from it when the pool starts
InitPool ==
    \E keys \in {<<>>, <<OldKey>>} :
        pool = [NoPool EXCEPT !.cache = keys, !.file = json_dump(keys)]

At(w, pc) == pool.worker[w].pc = pc

\* lines 342-349: the cache check
CacheCheck(w) ==
    /\ At(w, "idle")
    /\ pool' = IF WorkerKey(w) \in Range(pool.cache)
               THEN [pool EXCEPT !.worker[w].pc = "done", !.worker[w].result = "cached"]
               ELSE [pool EXCEPT !.worker[w].pc = "calling"]

\* lines 364-367, 384-397: get_completion answers a text, or raises and the
\* only provider has failed
GetCompletion(w) ==
    /\ At(w, "calling")
    /\ \E ok \in BOOLEAN :
          pool' = IF ok
                  THEN [pool EXCEPT !.worker[w].pc = "answered", !.worker[w].answered = TRUE]
                  ELSE [pool EXCEPT !.worker[w].pc = "done", !.worker[w].result = "failed"]

\* line 374: cache[fingerprint] = response
CacheStore(w) ==
    /\ At(w, "answered")
    /\ pool' = [pool EXCEPT !.worker[w].pc = "stored",
                            !.cache = IF WorkerKey(w) \in Range(@) THEN @
                                      ELSE Append(@, WorkerKey(w))]

\* line 375: open(CACHE_FILE, 'w') truncates the file
OpenCacheFile(w) ==
    /\ At(w, "stored")
    /\ pool' = [pool EXCEPT !.worker[w].pc = "opened", !.file = <<>>]

\* line 376: json.dump starts to iterate over the dict
DumpBegins(w) ==
    /\ At(w, "opened")
    /\ pool' = [pool EXCEPT !.worker[w].pc = "dumping", !.worker[w].seen = pool.cache]

\* line 376: the iteration ends, or finds that the dict changed size and
\* raises RuntimeError, which line 384 catches as a failure of the provider
DumpEnds(w) ==
    /\ At(w, "dumping")
    /\ IF pool.cache = pool.worker[w].seen
       THEN pool' = [pool EXCEPT !.worker[w].pc = "closing",
                                 !.worker[w].buffer = json_dump(pool.cache),
                                 !.worker[w].result = "returned"]
       ELSE \E k \in 0..Len(pool.worker[w].seen) :
               pool' = [pool EXCEPT !.worker[w].pc = "closing",
                                    !.worker[w].buffer
                                        = json_dump_interrupted(pool.worker[w].seen, k),
                                    !.worker[w].result = "failed"]

\* the end of the with block: the text goes to the file
CloseCacheFile(w) ==
    /\ At(w, "closing")
    /\ pool' = [pool EXCEPT !.worker[w].pc = "done",
                            !.file = WriteAtStart(@, pool.worker[w].buffer)]

PoolFrame == UNCHANGED <<injectVars, retryVars, queueVars, trackerVars, dirVars, markerVars, lastSplit, backupVars, lastPrompt>>

CacheCheckStep == (\E w \in Workers : CacheCheck(w)) /\ PoolFrame

GetCompletionStep == (\E w \in Workers : GetCompletion(w)) /\ PoolFrame

CacheStoreStep == (\E w \in Workers : CacheStore(w)) /\ PoolFrame

OpenCacheFileStep == (\E w \in Workers : OpenCacheFile(w)) /\ PoolFrame

DumpBeginsStep == (\E w \in Workers : DumpBegins(w)) /\ PoolFrame

DumpEndsStep == (\E w \in Workers : DumpEnds(w)) /\ PoolFrame

CloseCacheFileStep == (\E w \in Workers : CloseCacheFile(w)) /\ PoolFrame

-----------------------------------------------------------------------------
(* engine/file_splitter.py: split_file of a file that is neither Python,     *)
(* JavaScript, HTML nor CSS (_split_generic_file), and the test of           *)
(* _process_single_file that sends a file to it.                             *)

SplitThreshold == 8000

Digits == <<"0", "1", "2", "3", "4", "5", "6", "7", "8", "9">>

\* str(n) of a natural number
RECURSIVE DecimalText(_)
DecimalText(n) ==
    IF n < 10 THEN <<Digits[n + 1]>>
    ELSE DecimalText(n \div 10) \o <<Digits[(n % 10) + 1]>>

max_chunk_size == 100

\* the newline of nl nearest to the middle of lo..hi
Middle(nl, lo, hi) ==
    CHOOSE i \in nl : \A j \in nl :
        (IF 2 * i >= lo + hi THEN 2 * i - lo - hi ELSE lo + hi - 2 * i)
            <= (IF 2 * j >= lo + hi THEN 2 * j - lo - hi ELSE lo + hi - 2 * j)

\* the pieces of s[lo..hi] between its newlines, which are at the places nl
RECURSIVE Pieces(_, _, _, _)
PiecesAround(s, lo, hi, nl, m) ==
    Pieces(s, lo, m - 1, {i \in nl : i < m}) \o Pieces(s, m + 1, hi, {i \in nl : i > m})

Pieces(s, lo, hi, nl) ==
    IF nl = {} THEN <<SubSeq(s, lo, hi)>>
    ELSE PiecesAround(s, lo, hi, nl, Middle(nl, lo, hi))

\* str.splitlines() of a text whose only line ends are newlines
splitlines(s) ==
    IF s = <<>> THEN <<>>
    ELSE IF s[Len(s)] = "\n"
    THEN Pieces(s, 1, Len(s) - 1, {i \in 1..(Len(s) - 1) : s[i] = "\n"})
    ELSE Pieces(s, 1, Len(s), {i \in 1..Len(s) : s[i] = "\n"})

\* '\n'.join(lines[lo..hi])
RECURSIVE JoinRange(_, _, _)
JoinRange(lines, lo, hi) ==
    IF lo > hi THEN <<>>
    ELSE IF lo = hi THEN lines[lo]
    ELSE JoinRange(lines, lo, (lo + hi) \div 2) \o <<"\n">>
         \o JoinRange(lines, (lo + hi) \div 2 + 1, hi)

FileChunk(content, start_line, end_line, chunk_type, name) ==
    [content |-> content, start_line |-> start_line, end_line |-> end_line,
     chunk_type |-> chunk_type, name |-> name]

\* the loop of _split_generic_file from the line at current_start on: a chunk
\* is closed at max_chunk_size lines, the rest is the last chunk
RECURSIVE GenericChunks(_, _, _)
GenericChunks(lines, current_start, chunks) ==
    IF current_start > Len(lines) THEN chunks
    ELSE LET end_line == IF current_start + max_chunk_size - 1 <= Len(lines)
                         THEN current_start + max_chunk_size - 1 ELSE Len(lines)
         IN  GenericChunks(lines, end_line + 1,
                 Append(chunks,
                        FileChunk(JoinRange(lines, current_start, end_line), current_start,
                                  end_line, <<"b","l","o","c","k">>,
                                  <<"b","l","o","c","k","_">> \o DecimalText(Len(chunks) + 1))))

split_generic_file(lines) == GenericChunks(lines, 1, <<>>)

\* the test of _process_single_file (line 278)
needs_split(original_content, split_large) ==
    split_large /\ Len(original_content) > SplitThreshold

PathTxt == <<"n","o","t","e","s",".","t","x","t">>

PathMd == <<"R","E","A","D","M","E",".","m","d">>

\* k lines of w characters, each ended by a newline
Grid(k, w) == [i \in 1..(k * (w + 1)) |-> IF i % (w + 1) = 0 THEN "\n" ELSE "x"]

MaxChars == 51000

LineCounts == {1, 2, 50, 99, 100, 101, 134, 200}

LineWidths == {10, 59, 80, 170, 999, 8001}

Grids == {g \in LineCounts \X LineWidths : g[1] * (g[2] + 1) <= MaxChars}

NoSplit ==
    [op |-> "none", file |-> <<>>, lines |-> 0, chars |-> 0, split_large |-> FALSE,
     split |-> FALSE, max_chunk_size |-> 0, chunks |-> <<>>]

\* _process_single_file up to the choice between the file whole and its chunks
SplitDone(file_path, original_content, k, split_large) ==
    lastSplit' = [op |-> "process_single_file", file |-> file_path, lines |-> k,
                  chars |-> Len(original_content), split_large |-> split_large,
                  split |-> needs_split(original_content, split_large),
                  max_chunk_size |-> max_chunk_size,
                  chunks |-> IF needs_split(original_content, split_large)
                             THEN split_generic_file(splitlines(original_content))
                             ELSE <<>>]

\* one file is processed in a behaviour
SplitStep ==
    /\ lastSplit.op = "none"
    /\ \E file_path \in {PathTxt, PathMd}, g \in Grids, split_large \in BOOLEAN :
           SplitDone(file_path, Grid(g[1], g[2]), g[1], split_large)
    /\ UNCHANGED <<injectVars, retryVars, queueVars, trackerVars, dirVars, markerVars,
                   backupVars, lastPrompt, pool>>

-----------------------------------------------------------------------------
(* engine/backup_engine.py, used on one file.  Time is counted in ticks of a *)
(* quarter of a second; every call takes one tick or more.                   *)

TicksPerSecond == 4

MaxTime == 8

MaxBackups == 3

Durations == {1, TicksPerSecond}

\* datetime.now().strftime("%Y%m%d_%H%M%S"): the time, to the second
timestamp(t) == DecimalText(t \div TicksPerSecond)

\* f"{file_path.name}.{timestamp}.bak"
backup_filename(file_path, t) ==
    PathName(file_path) \o <<".">> \o t \o <<".","b","a","k">>

FileContents == {Code1, GoodCode, EscalatedCode}

\* taken lists, for every create_backup call, the name it returned and the
\* content the file had
NoBackup == [op |-> "none", taken |-> <<>>, k |-> 0, ok |-> FALSE]

InitBackup ==
    /\ backedFile = Code1
    /\ backupStore = <<>>
    /\ backupMeta = <<>>
    /\ now = 0
    /\ lastBackup = NoBackup

\* shutil.copy2 to the backup path, then save_backup_metadata
CreateBackup(file_path, d) ==
    /\ Len(lastBackup.taken) < MaxBackups
    /\ now + d <= MaxTime
    /\ LET backup_file == backup_filename(file_path, timestamp(now))
       IN  /\ backupStore' = [n \in DOMAIN backupStore \cup {backup_file} |->
                                 IF n = backup_file THEN backedFile ELSE backupStore[n]]
           /\ backupMeta' = Append(backupMeta, [original_file |-> file_path,
                                                backup_file |-> backup_file,
                                                timestamp |-> timestamp(now),
                                                file_size |-> Len(backedFile)])
           /\ lastBackup' = [op |-> "create_backup", k |-> Len(lastBackup.taken) + 1,
                             ok |-> TRUE,
                             taken |-> Append(lastBackup.taken,
                                              [name |-> backup_file, content |-> backedFile])]
    /\ now' = now + d
    /\ UNCHANGED backedFile

\* the file is edited between two calls of the engine
ModifyFile(content, d) ==
    /\ now + d <= MaxTime
    /\ content # backedFile
    /\ backedFile' = content
    /\ now' = now + d
    /\ lastBackup' = [lastBackup EXCEPT !.op = "modify", !.k = 0, !.ok = TRUE]
    /\ UNCHANGED <<backupStore, backupMeta>>

\* restore_backup with the name the k-th create_backup call returned
RestoreBackup(k, d) ==
    /\ now + d <= MaxTime
    /\ k \in 1..Len(lastBackup.taken)
    /\ IF lastBackup.taken[k].name \in DOMAIN backupStore
       THEN /\ backedFile' = backupStore[lastBackup.taken[k].name]
            /\ lastBackup' = [lastBackup EXCEPT !.op = "restore_backup", !.k = k, !.ok = TRUE]
       ELSE /\ lastBackup' = [lastBackup EXCEPT !.op = "restore_backup", !.k = k, !.ok = FALSE]
            /\ UNCHANGED backedFile
    /\ now' = now + d
    /\ UNCHANGED <<backupStore, backupMeta>>

CreateBackupStep ==
    /\ \E d \in Durations : CreateBackup(PathA, d)
    /\ UNCHANGED <<injectVars, retryVars, queueVars, trackerVars, dirVars, markerVars, lastSplit, lastPrompt, pool>>

ModifyStep ==
    /\ \E content \in FileContents, d \in Durations : ModifyFile(content, d)
    /\ UNCHANGED <<injectVars, retryVars, queueVars, trackerVars, dirVars, markerVars, lastSplit, lastPrompt, pool>>

RestoreStep ==
    /\ \E k \in 1..MaxBackups, d \in Durations : RestoreBackup(k, d)
    /\ UNCHANGED <<injectVars, retryVars, queueVars, trackerVars, dirVars, markerVars, lastSplit, lastPrompt, pool>>

-----------------------------------------------------------------------------
(* engine/recursive.py: inject_dir, with the marker functions and            *)
(* safe_write_file of engine/file_utils.py.  run_injection_from_files reads  *)
(* the file and the instruction and returns what run_model answers, or       *)
(* raises.                                                                   *)

PathJs == <<"b",".","j","s">>

PathHtml == <<"c",".","h","t","m","l">>

\* sorted(files), of the files the model knows
TreeOrder == <<PathA, PathJs, PathHtml>>

SortedTree(files) == SelectSeq(TreeOrder, LAMBDA f : f \in files)

MarkedCode == PYTHON_MARKER \o <<"\n">> \o GoodCode

InjectionFailedText == <<"[","I","n","j","e","c","t","i","o","n"," ","f","a","i","l","e","d",":"," ","t","i","m","e","o","u","t",".","]">>

\* the directories inject_dir is run on: no file carries a marker; one does;
\* one file is empty
Trees ==
    { [f \in {PathA, PathJs} |-> Code1],
      [f \in {PathA, PathJs, PathHtml} |->
          IF f = PathHtml THEN HTML_MARKER \o <<"\n">> \o Code1 ELSE Code1],
      [f \in {PathA, PathJs} |-> IF f = PathA THEN <<"\n">> ELSE Code1] }

PyExtension == <<".","p","y">>

DefaultExtensions == {PyExtension, <<".","h","t","m","l">>, <<".","j","s">>}

ExtensionLists == {DefaultExtensions, {PyExtension}}

is_supported_file(filename, extensions) ==
    extensions = {} \/ Lower(PathSuffix(filename)) \in {Lower(ext) : ext \in extensions}

\* what run_injection_from_files and safe_write_file do for one file
TreeResponses == {GoodCode, NoChangesText, MarkedCode, InjectionFailedText}

TreeScenarios ==
    {[model |-> ModelRaises, writes |-> TRUE]}
    \cup {[model |-> ModelAnswers(t), writes |-> TRUE] : t \in TreeResponses}
    \cup {[model |-> ModelAnswers(GoodCode), writes |-> FALSE]}

TreeMeaningful == [t \in TreeResponses |-> is_meaningful_response(t)]

\* safe_write_file(file_path, content, backup=True): the backup is written,
\* then the file; a write that fails leaves the file as it was
safe_write_file(st, file_path, content, writes) ==
    [st EXCEPT !.backups = [f \in DOMAIN st.backups \cup {file_path} |->
                              IF f = file_path THEN st.tree[f] ELSE st.backups[f]],
               !.tree = IF writes THEN [st.tree EXCEPT ![file_path] = content] ELSE st.tree,
               !.written = Append(@, [file |-> file_path, content |-> content, ok |-> writes])]

\* the body of the loop of inject_dir (lines 283-318)
InjectDirFile(st, file_path, e) ==
    IF file_contains_marker(st.tree, file_path)
    THEN [st EXCEPT !.skipped = Append(@, file_path)]
    ELSE IF Strip(st.tree[file_path]) = <<>> THEN st
    ELSE IF ~e.model.ok
    THEN [st EXCEPT !.calls = Append(@, file_path), !.failed = Append(@, file_path)]
    ELSE IF ~TreeMeaningful[e.model.text]
    THEN [st EXCEPT !.calls = Append(@, file_path), !.failed = Append(@, file_path)]
    ELSE IF e.writes
    THEN [safe_write_file(st, file_path, add_marker_to_content(e.model.text, file_path), TRUE)
            EXCEPT !.calls = Append(@, file_path), !.injected = Append(@, file_path)]
    ELSE [safe_write_file(st, file_path, add_marker_to_content(e.model.text, file_path), FALSE)
            EXCEPT !.calls = Append(@, file_path), !.failed = Append(@, file_path)]

RECURSIVE InjectDirLoop(_, _, _, _)
InjectDirLoop(st, files, i, env) ==
    IF i > Len(files) THEN st
    ELSE InjectDirLoop(InjectDirFile(st, files[i], env[files[i]]), files, i + 1, env)

inject_dir(t, b, extensions, env) ==
    InjectDirLoop([tree |-> t, backups |-> b, injected |-> <<>>, skipped |-> <<>>,
                   failed |-> <<>>, calls |-> <<>>, written |-> <<>>],
                  SortedTree({f \in DOMAIN t : is_supported_file(PathName(f), extensions)}),
                  1, env)

MaxRuns == 3

NoDir ==
    [op |-> "none", run |-> 0, before |-> <<>>, earlier |-> {}, injected |-> <<>>,
     skipped |-> <<>>, failed |-> <<>>, calls |-> <<>>, written |-> <<>>]

InitTools ==
    /\ tree = <<>>
    /\ treeBackups = <<>>
    /\ lastDir = NoDir
    /\ lastSplit = NoSplit
    /\ lastPrompt = NoPrompt
    /\ pool = NoPool
    /\ InitBackup

\* the directory is one of Trees when the first run begins
InitTree ==
    /\ tree \in Trees
    /\ treeBackups = <<>>
    /\ lastDir = NoDir
    /\ lastSplit = NoSplit
    /\ lastPrompt = NoPrompt
    /\ pool = NoPool
    /\ InitBackup

\* earlier is the set of files that runs before this one reported as injected
InjectDirDone(r) ==
    /\ tree' = r.tree
    /\ treeBackups' = r.backups
    /\ lastDir' = [op |-> "inject_dir", run |-> lastDir.run + 1, before |-> tree,
                   earlier |-> lastDir.earlier \cup Range(lastDir.injected),
                   injected |-> r.injected, skipped |-> r.skipped, failed |-> r.failed,
                   calls |-> r.calls, written |-> r.written]

InjectDir(extensions, env) ==
    /\ lastDir.run < MaxRuns
    /\ InjectDirDone(inject_dir(tree, treeBackups, extensions, env))

InjectDirStep ==
    /\ \E extensions \in ExtensionLists, env \in [DOMAIN tree -> TreeScenarios] :
           InjectDir(extensions, env)
    /\ UNCHANGED <<injectVars, retryVars, queueVars, trackerVars, dirVars, lastSplit, backupVars, lastPrompt, pool>>

-----------------------------------------------------------------------------
(* engine/recursive_enhanced.py: inject_directory_enhanced.  A directory     *)
(* gives, for each of its files, whether it can be read, its content, what   *)
(* _extract_dependencies finds in it and the chunks split_file returns for   *)
(* it.  A file is processed in one step; the steps of one call follow each   *)
(* other in the order of the list (one worker) or in any order (a pool).     *)

NL2 == <<"\n", "\n">>

\* '\n'.join(lines) and '\n\n'.join(parts)
RECURSIVE Join(_, _)
Join(sep, parts) ==
    IF parts = <<>> THEN <<>>
    ELSE IF Len(parts) = 1 THEN parts[1]
    ELSE parts[1] \o sep \o Join(sep, Tail(parts))

BigLine == <<"x"," ","="," ","1"," "," ","#","#","#","#","#","#","#","#","#","#","#","#","#","#","#","#","#","#","#","#","#","#","#","#","#","#","#","#","#","#","#","#","#","#","#","#","#","#","#","#","#","#","#","#","#","#","#","#","#","#","#","#">>

BigLines == 134

\* k lines of BigLine joined by newlines
Lines(k) ==
    [i \in 1..((Len(BigLine) + 1) * k - 1) |->
        IF i % (Len(BigLine) + 1) = 0 THEN "\n" ELSE BigLine[i % (Len(BigLine) + 1)]]

\* a file of 134 lines and 8040 characters, and the two chunks split_file
\* cuts it into: 100 lines, then 34
BigCode == Lines(BigLines) \o <<"\n">>

BigChunks ==
    <<[content |-> Lines(100), start_line |-> 1, end_line |-> 100,
       chunk_type |-> <<"b","l","o","c","k">>, name |-> <<"m","a","i","n">>],
      [content |-> Lines(BigLines - 100), start_line |-> 101, end_line |-> BigLines,
       chunk_type |-> <<"b","l","o","c","k">>, name |-> <<"m","a","i","n">>]>>

SourceFile(readable, content, deps, chunks) ==
    [readable |-> readable, content |-> content, deps |-> deps, chunks |-> chunks]

\* the directories a call may be given: a.py imports b.py and b.py imports
\* c.py; a large a.py beside a b.py that cannot be read; no file at all
ChainDirectory ==
    [f \in {PathA, PathB, PathC} |->
        SourceFile(TRUE, Code1,
                   IF f = PathA THEN <<PathB>> ELSE IF f = PathB THEN <<PathC>> ELSE <<>>,
                   <<>>)]

LargeDirectory ==
    [f \in {PathA, PathB} |->
        IF f = PathA THEN SourceFile(TRUE, BigCode, <<>>, BigChunks)
        ELSE SourceFile(FALSE, <<>>, <<>>, <<>>)]

Directories == {<<>>, ChainDirectory, LargeDirectory}

\* _find_files: the paths, sorted
find_files(dir) == SortedPaths(DOMAIN dir)

\* split_file(file_path)
split_file(dir, file_path) == dir[file_path].chunks

\* the graph build_dependency_graph finds in the directory
GraphOf(dir) ==
    [i \in 1..Len(find_files(dir)) |->
        [file |-> find_files(dir)[i], deps |-> dir[find_files(dir)[i]].deps]]

\* the files in the order _find_files gave
SortIgnored(files, order) == files

sort_by_dependency_order(files, order) ==
    SelectSeq(FirstMentions(order), LAMBDA f : InSeq(f, files))
        \o SortedPaths({f \in Range(files) : ~InSeq(f, order)})

prepare_chunk_prompt(base_prompt, chunk, chunk_num, total_chunks) ==
    base_prompt \o NL2
        \o <<"\n","C","H","U","N","K"," ","I","N","F","O","R","M","A","T","I","O","N",":","\n","-"," ","T","h","i","s"," ","i","s"," ","c","h","u","n","k"," ">> \o DecimalText(chunk_num)
        \o <<" ","o","f"," ">> \o DecimalText(total_chunks)
        \o <<" ","f","r","o","m"," ","t","h","e"," ","o","r","i","g","i","n","a","l"," ","f","i","l","e","\n","-"," ","C","h","u","n","k"," ","t","y","p","e",":"," ">> \o chunk.chunk_type
        \o <<"\n","-"," ","C","h","u","n","k"," ","n","a","m","e",":"," ">> \o chunk.name
        \o <<"\n","-"," ","L","i","n","e","s",":"," ">> \o DecimalText(chunk.start_line) \o <<"-">> \o DecimalText(chunk.end_line)
        \o <<"\n","\n","I","M","P","O","R","T","A","N","T",":"," ","W","h","e","n"," ","m","o","d","i","f","y","i","n","g"," ","t","h","i","s"," ","c","h","u","n","k",","," ","m","a","i","n","t","a","i","n"," ","c","o","n","s","i","s","t","e","n","c","y"," ","w","i","t","h"," ","o","t","h","e","r"," ","c","h","u","n","k","s"," ","a","n","d"," ","t","h","e"," ","o","v","e","r","a","l","l"," ","f","i","l","e"," ","s","t","r","u","c","t","u","r","e",".","\n">>

\* f"{file_path}:chunk_{chunk_index}"
ChunkPath(file_path, chunk_index) ==
    file_path \o <<":","c","h","u","n","k","_">> \o DecimalText(chunk_index)

\* _inject_chunk: run_injection does not raise, so the first provider of the
\* chain gives the value returned; an empty chain gives None
inject_chunk(c, file_path, chunk, prompt_template, provider_chain, chunk_index, keys, scen) ==
    IF provider_chain = <<>>
    THEN [result |-> <<>>, cache |-> c, calls |-> <<>>, modelCalls |-> 0,
          wrote |-> FALSE, answered |-> FALSE, failed |-> FALSE]
    ELSE run_injection(c, chunk.content,
                       prepare_chunk_prompt(prompt_template, chunk, chunk_index + 1, 1)
                           \o NL2 \o chunk.content,
                       ChunkPath(file_path, chunk_index), FALSE, keys,
                       scen.outcomes[chunk_index + 1], scen.model)

\* what is known after one more chunk: chunk_result is kept when it is truthy
ChunkDone(w, r) ==
    [cache |-> r.cache, wrote |-> w.wrote \/ r.wrote,
     provider_failed |-> w.provider_failed \/ r.failed,
     processed_chunks |-> IF r.result # <<>> THEN Append(w.processed_chunks, r.result)
                          ELSE w.processed_chunks]

\* the chunk loop of _process_file_chunks (lines 308-325); w carries the cache
\* and the processed chunks
RECURSIVE ChunkLoop(_, _, _, _, _, _, _, _)
ChunkLoop(w, file_path, chunks, i, prompt_template, provider_chain, keys, scen) ==
    IF i > Len(chunks) THEN w
    ELSE ChunkLoop(
             ChunkDone(w, inject_chunk(w.cache, file_path, chunks[i],
                                       prepare_chunk_prompt(prompt_template, chunks[i], i,
                                                            Len(chunks)),
                                       provider_chain, i - 1, keys, scen)),
             file_path, chunks, i + 1, prompt_template, provider_chain, keys, scen)

reassemble_chunks(processed_chunks) == Join(NL2, processed_chunks)

\* what processing one file did
Processed(kind, file_path, w, content, provider, split, saved) ==
    [kind |-> kind, file |-> file_path, cache |-> w.cache, wrote |-> w.wrote,
     provider_failed |-> w.provider_failed, content |-> content, provider |-> provider,
     split |-> split, chunks_processed |-> Len(w.processed_chunks), saved |-> saved]

ProcessedChunks(w, file_path, chunks, apply, scen) ==
    IF Len(w.processed_chunks) # Len(chunks)
    THEN Processed("failed", file_path, w, <<>>, "", 1, FALSE)
    ELSE IF apply /\ ~scen.saves
    THEN Processed("failed", file_path, w, <<>>, "", 1, FALSE)
    ELSE Processed("success", file_path, w, reassemble_chunks(w.processed_chunks),
                   "chunked", 1, apply)

NoWork(c) == [cache |-> c, wrote |-> FALSE, provider_failed |-> FALSE, processed_chunks |-> <<>>]

process_file_chunks(c, dir, file_path, prompt_template, apply, provider_chain, keys, scen) ==
    ProcessedChunks(ChunkLoop(NoWork(c), file_path, split_file(dir, file_path), 1,
                              prompt_template, provider_chain, keys, scen),
                    file_path, split_file(dir, file_path), apply, scen)

ProcessedContent(r, c, file_path, apply, provider_chain, scen) ==
    IF provider_chain = <<>>
    THEN Processed("failed", file_path, NoWork(c), <<>>, "", 0, FALSE)
    ELSE IF apply /\ ~scen.saves
    THEN Processed("failed", file_path,
                   ChunkDone(NoWork(c), [r EXCEPT !.result = <<>>]),
                   <<>>, "", 0, FALSE)
    ELSE Processed("success", file_path,
                   ChunkDone(NoWork(c), [r EXCEPT !.result = <<>>]),
                   r.result, provider_chain[1], 0, apply)

\* _process_file_content without the context prompt
process_file_content(c, file_path, original_content, prompt_template, apply, provider_chain, keys, scen) ==
    ProcessedContent(run_injection(c, original_content,
                                   prompt_template \o NL2 \o original_content, file_path,
                                   FALSE, keys, scen.outcomes[1], scen.model),
                     c, file_path, apply, provider_chain, scen)

\* _has_cached_result
has_cached_result(file_path) == FALSE

process_single_file(c, dir, file_path, prompt_template, p, keys, scen) ==
    IF p.skip_known /\ has_cached_result(file_path)
    THEN Processed("skipped", file_path, NoWork(c), <<>>, "", 0, FALSE)
    ELSE IF ~dir[file_path].readable
    THEN Processed("failed", file_path, NoWork(c), <<>>, "", 0, FALSE)
    ELSE IF p.split_large /\ Len(dir[file_path].content) > SplitThreshold
    THEN process_file_chunks(c, dir, file_path, prompt_template, p.apply,
                             p.provider_chain, keys, scen)
    ELSE process_file_content(c, file_path, dir[file_path].content, prompt_template,
                              p.apply, p.provider_chain, keys, scen)

\* what the providers and the file system do while one file is processed:
\* outcomes[k] is what get_completion answers during the k-th run_injection
\* call, saves whether save_output can write
AllAnswer == [p \in ProviderNames |-> Completion(GoodCode)]

AllDown == [p \in ProviderNames |-> NoCompletion]

DirScenarios ==
    { [outcomes |-> <<AllAnswer, AllAnswer>>, model |-> ModelRaises, saves |-> TRUE],
      [outcomes |-> <<AllDown, AllDown>>, model |-> ModelRaises, saves |-> TRUE],
      [outcomes |-> <<AllAnswer, AllDown>>, model |-> ModelRaises, saves |-> TRUE],
      [outcomes |-> <<AllAnswer, AllAnswer>>, model |-> ModelRaises, saves |-> FALSE] }

DefaultProviderChain == <<"anthropic", "groq", "fallback">>

\* a graph a caller built earlier and hands in: a.py imports b.py
SuppliedGraph ==
    <<[file |-> PathA, deps |-> <<PathB>>], [file |-> PathB, deps |-> <<>>],
      [file |-> PathC, deps |-> <<>>]>>

\* the arguments of a call; with_context is False, and a graph is handed in
\* only together with track_deps (without it the graph is not read)
DirParams ==
    {p \in [apply : BOOLEAN, skip_known : BOOLEAN, split_large : BOOLEAN,
            track_deps : BOOLEAN, max_workers : {1, 4},
            provider_chain : {DefaultProviderChain},
            dependency_graph : {<<>>, SuppliedGraph}] :
        p.dependency_graph # <<>> => p.track_deps}

NoParams ==
    [apply |-> FALSE, skip_known |-> FALSE, split_large |-> FALSE, track_deps |-> FALSE,
     max_workers |-> 1, provider_chain |-> DefaultProviderChain, dependency_graph |-> <<>>]

NoReturn == [success |-> FALSE, total_files |-> 0, successful_injections |-> 0,
             failed_injections |-> 0, skipped_files |-> 0]

\* split are the files that were split, failedCalls the files for which a
\* run_injection call found every provider failing, and cachedBefore the
\* files that had a cached success when the call began
DirIdle ==
    [phase |-> "idle", call |-> 0, params |-> NoParams, parallel |-> FALSE, files |-> <<>>,
     todo |-> <<>>, done |-> <<>>, result |-> NoReturn, split |-> {},
     failedCalls |-> {}, cachedBefore |-> {}]

NoInjected ==
    [successful_injections |-> <<>>, failed_injections |-> <<>>, skipped_files |-> <<>>,
     files_split |-> 0, chunks_processed |-> 0]

InitDir ==
    /\ directory = <<>>
    /\ dirExists = TRUE
    /\ outputs = <<>>
    /\ injected = NoInjected
    /\ dirRun = DirIdle

\* surgi_cache.json as an earlier process left it after injecting a.py of the
\* chain directory
EarlierCache ==
    process_file_content(<<>>, PathA, Code1, Prompt1, FALSE, DefaultProviderChain,
                         ProviderNames, CHOOSE s \in DirScenarios :
                                            s.outcomes = <<AllAnswer, AllAnswer>> /\ s.saves).cache

LoadedCaches == {<<>>, EarlierCache}

\* the state in which a process starts on a directory
InitDirectory ==
    /\ cache \in LoadedCaches
    /\ cacheFile = cache
    /\ apiKeys = ProviderNames
    /\ obtained = {}
    /\ disk = [f \in Paths |-> Code1]
    /\ backups = <<>>
    /\ history = {}
    /\ lastRun = NoRun
    /\ lastBatch = NoBatch
    /\ InitRetry
    /\ InitQueue
    /\ InitTracker
    /\ directory \in Directories
    /\ dirExists \in BOOLEAN
    /\ ~dirExists => directory = <<>>
    /\ outputs = <<>>
    /\ injected = NoInjected
    /\ dirRun = DirIdle
    /\ InitTools

\* the key handle_injection looks up for a file processed whole
FileFingerprint(dir, file_path) ==
    compute_fingerprint(dir[file_path].content,
                        build_prompt(file_path, dir[file_path].content,
                                     Prompt1 \o NL2 \o dir[file_path].content))

\* the cache holds a response that is not weak for the file and the prompt
cached_success(c, dir, file_path) ==
    /\ dir[file_path].readable
    /\ FileFingerprint(dir, file_path) \in DOMAIN c
    /\ ~ResponseIsWeak(c[FileFingerprint(dir, file_path)].text)

\* a failed file ends the batch
RemainingUnlessFailed(todo, r) ==
    IF r.kind = "failed" THEN <<>> ELSE SelectSeq(todo, LAMBDA f : f # r.file)

\* the files left once r.file is done
Remaining(todo, r) == SelectSeq(todo, LAMBDA f : f # r.file)

\* the call up to the processing of the files (lines 83-128)
DirStarted(p, files, order) ==
    [phase |-> "running", call |-> dirRun.call + 1, params |-> p,
     parallel |-> p.max_workers > 1 /\ Len(files) > 1, files |-> files,
     todo |-> IF p.track_deps /\ order # <<>> THEN sort_by_dependency_order(files, order)
              ELSE files,
     done |-> <<>>, result |-> NoReturn, split |-> {}, failedCalls |-> {},
     cachedBefore |-> {f \in Range(files) : cached_success(cache, directory, f)}]

\* the method up to the processing of the files; call counts the calls made
\* on the injector
DirectoryCall(p, loads) ==
    /\ IF ~loads
       THEN /\ dirRun' = [DirIdle EXCEPT !.phase = "returned", !.params = p,
                                         !.call = dirRun.call + 1]
            /\ UNCHANGED trackerVars
       ELSE IF p.track_deps /\ p.dependency_graph = <<>> /\ ~dirExists
       THEN \* build_dependency_graph raises FileNotFoundError (lines 42-44)
            /\ dirRun' = [DirIdle EXCEPT !.phase = "raised", !.params = p,
                                         !.call = dirRun.call + 1]
            /\ UNCHANGED trackerVars
       ELSE /\ IF p.track_deps /\ p.dependency_graph # <<>>
               THEN \* lines 102-105: the graph and the order are replaced
                    /\ dependency_graph' = p.dependency_graph
                    /\ injection_order' = calculate_injection_order(p.dependency_graph)
                    /\ UNCHANGED <<reverse_graph, lastContext>>
               ELSE IF p.track_deps
               THEN /\ dependency_graph' = GraphOf(directory)
                    /\ reverse_graph' = ReverseOf(GraphOf(directory))
                    /\ injection_order' = calculate_injection_order(GraphOf(directory))
                    /\ lastContext' = NoContext
               ELSE UNCHANGED trackerVars
            /\ IF find_files(directory) = <<>>
               THEN dirRun' = [DirIdle EXCEPT !.phase = "returned", !.params = p,
                                              !.result.success = TRUE,
                                              !.call = dirRun.call + 1]
               ELSE dirRun' = DirStarted(p, find_files(directory), injection_order')
    /\ UNCHANGED <<injectVars, retryVars, queueVars, toolVars, directory, dirExists, outputs,
                   injected>>

\* the first call on the injector of the process
InjectDirectoryEnhanced(p, loads) ==
    /\ dirRun.phase = "idle"
    /\ DirectoryCall(p, loads)

MaxCalls == 2

\* a later call of the module-level inject_directory_enhanced: the global
\* enhanced_injector (lines 498-540) is used again, with the results it holds
InjectDirectoryAgain(p) ==
    /\ dirRun.phase = "returned"
    /\ dirRun.call < MaxCalls
    /\ DirectoryCall(p, TRUE)

\* self.results after a file was processed
Recorded(r) ==
    [injected EXCEPT
        !.successful_injections =
            IF r.kind = "success" THEN Append(@, [file |-> r.file, provider |-> r.provider])
            ELSE @,
        !.failed_injections = IF r.kind = "failed" THEN Append(@, [file |-> r.file]) ELSE @,
        !.skipped_files = IF r.kind = "skipped" THEN Append(@, r.file) ELSE @,
        !.files_split = @ + r.split,
        !.chunks_processed = @ + r.chunks_processed]

\* the state after _process_single_file handled the file as r tells
FileProcessed(r, id) ==
    /\ cache' = r.cache
    /\ cacheFile' = IF r.wrote THEN r.cache ELSE cacheFile
    /\ outputs' = IF r.saved
                  THEN [f \in DOMAIN outputs \cup {r.file} |->
                           IF f = r.file THEN r.content ELSE outputs[f]]
                  ELSE outputs
    /\ injected' = Recorded(r)
    /\ IF r.kind = "success"
       THEN /\ lock = "free"
            /\ created' = created + 1
            /\ QueueBecomes([QueueNow EXCEPT !.pending =
                   Append(@, injection_result(created + 1, id,
                                 [file_path |-> r.file, original |-> directory[r.file].content,
                                  injected |-> r.content, status |-> "success",
                                  provider |-> r.provider, with_context |-> FALSE]))])
            /\ lastQ' = QDone("add", id, TRUE, 0, created + 1, TRUE)
            /\ UNCHANGED <<lock, callers>>
       ELSE UNCHANGED queueVars
    /\ dirRun' = [dirRun EXCEPT
           !.todo = Remaining(@, r),
           !.done = Append(@, r.file),
           !.split = IF r.split = 1 THEN @ \cup {r.file} ELSE @,
           !.failedCalls = IF r.provider_failed THEN @ \cup {r.file} ELSE @]

\* a pool that hands out one file at a time; C34 must tell it from Startable
StartableInTurn(run, file_path) == file_path = Head(run.todo)

\* the files a worker can take up: the next one of the loop, or with a pool
\* (lines 129-137, 232-240) any file submitted and not yet done
Startable(run, file_path) ==
    IF run.parallel THEN InSeq(file_path, run.todo) ELSE file_path = Head(run.todo)

\* one file of the list is processed
ProcessSingleFile(file_path, scen, id) ==
    /\ dirRun.phase = "running"
    /\ dirRun.todo # <<>>
    /\ Startable(dirRun, file_path)
    /\ FileProcessed(process_single_file(cache, directory, file_path, Prompt1,
                                         dirRun.params, apiKeys, scen), id)
    /\ UNCHANGED <<apiKeys, obtained, disk, backups, history, lastRun, lastBatch,
                   retryVars, trackerVars, toolVars, directory, dirExists>>

\* every file was processed: the call returns the counts (lines 130-168)
DirectoryReturn ==
    /\ dirRun.phase = "running"
    /\ dirRun.todo = <<>>
    /\ dirRun' = [dirRun EXCEPT
           !.phase = "returned",
           !.result = [success |-> TRUE, total_files |-> Len(dirRun.files),
                       successful_injections |-> Len(injected.successful_injections),
                       failed_injections |-> Len(injected.failed_injections),
                       skipped_files |-> Len(injected.skipped_files)]]
    /\ UNCHANGED <<injectVars, retryVars, queueVars, trackerVars, toolVars, directory,
                   dirExists, outputs, injected>>

DirStartStep == \E p \in DirParams, loads \in BOOLEAN : InjectDirectoryEnhanced(p, loads)

\* the calls of the specification of repeated calls: one worker, no flag set
PlainParams == {p \in DirParams : p = [NoParams EXCEPT !.apply = p.apply]}

DirPlainStartStep == \E p \in PlainParams : InjectDirectoryEnhanced(p, TRUE)

DirAgainStep == \E p \in PlainParams : InjectDirectoryAgain(p)

DirFileStep ==
    \E file_path \in Range(PathOrder), scen \in DirScenarios, id \in Ids :
        ProcessSingleFile(file_path, scen, id)

Init == InitInject /\ InitRetry /\ InitQueue /\ InitTracker /\ InitDir /\ InitTools

\* the retry engine and the queue read no API key: their specifications start
\* from the environment in which none is set
InitKeyless == Init /\ apiKeys = {}

SpecInject == Init /\ [][RunInjectionStep]_vars

SpecBatch == Init /\ [][BatchInjectStep]_vars

NextRetry == InjectWithRetryStep \/ ClearFailureLog

SpecRetry == InitKeyless /\ [][NextRetry]_vars

NextQueue == AddStep \/ ApproveStep \/ RejectStep \/ ApproveAllStep

SpecQueue == InitKeyless /\ [][NextQueue]_vars

NextQueueFile == AddStep \/ ApproveStep \/ RejectStep \/ ApproveAllStep \/ ClearStep \/ LoadStep

SpecQueueFile == InitKeyless /\ [][NextQueueFile]_vars

NextTracker == BuildStep \/ ContextStep

SpecTracker == InitKeyless /\ [][NextTracker]_vars

SpecGate == InitKeyless /\ [][GateStep]_vars

NextDirectory == DirStartStep \/ DirFileStep \/ DirectoryReturn

SpecDirectory == InitDirectory /\ [][NextDirectory]_vars

InitMarker ==
    /\ InitInject /\ apiKeys = {}
    /\ InitRetry /\ InitQueue /\ InitTracker /\ InitDir
    /\ InitTree

\* the tracker has analysed some folder when a prompt is asked for
InitPrompt ==
    /\ InitInject /\ apiKeys = {}
    /\ InitRetry /\ InitQueue /\ InitDir /\ InitTools
    /\ lastContext = NoContext
    /\ \E t \in BuiltTrackers :
          /\ dependency_graph = t.graph
          /\ reverse_graph = t.reverse
          /\ injection_order = t.order

SpecPrompt == InitPrompt /\ [][PromptStep]_vars

\* the pool starts with the cache the module loaded
InitWorkers ==
    /\ InitInject /\ apiKeys = {}
    /\ InitRetry /\ InitQueue /\ InitTracker /\ InitDir
    /\ tree = <<>> /\ treeBackups = <<>> /\ lastDir = NoDir
    /\ lastSplit = NoSplit /\ InitBackup /\ lastPrompt = NoPrompt
    /\ InitPool

NextPool ==
    \/ CacheCheckStep \/ GetCompletionStep \/ CacheStoreStep \/ OpenCacheFileStep
    \/ DumpBeginsStep \/ DumpEndsStep \/ CloseCacheFileStep

SpecPool == InitWorkers /\ [][NextPool]_vars

NextCallers == AddStep \/ CallsBeginStep \/ LockAcquireStep \/ LockedBodyStep

SpecCallers == InitKeyless /\ [][NextCallers]_vars

SpecRetryQueue == InitKeyless /\ [][ModuleInjectWithRetryStep]_vars

NextDirectoryAgain == DirPlainStartStep \/ DirFileStep \/ DirectoryReturn \/ DirAgainStep

SpecDirectoryAgain == InitDirectory /\ [][NextDirectoryAgain]_vars

SpecMarker == InitMarker /\ [][InjectDirStep]_vars

SpecSplit == InitKeyless /\ [][SplitStep]_vars

NextBackup == CreateBackupStep \/ ModifyStep \/ RestoreStep

SpecBackup == InitKeyless /\ [][NextBackup]_vars

-----------------------------------------------------------------------------
(* Claims about the injector *)

StatusOf(results, f) == {results[k].status : k \in {j \in 1..Len(results) : results[j].file = f}}

\* C1: in batch_inject, a file for which every provider call failed (or for which
\* no provider is configured) keeps its content on disk and is reported 'failed',
\* never 'injected'.
C1_ProviderFailureLeavesFile ==
    \A f \in lastBatch.providerFailed :
        /\ disk[f] = lastBatch.before[f]
        /\ StatusOf(lastBatch.results, f) = {"failed"}

\* C2: once run_injection has obtained and cached a usable provider response for a
\* (file content, instruction), a later run_injection with the same pair and
\* force=False returns that text and calls neither a provider nor run_model.
C2_CachedPairNotResubmitted ==
    (lastRun.op = "run_injection" /\ ~lastRun.force /\ lastRun.obtainedBefore # {})
        => /\ lastRun.result \in lastRun.obtainedBefore
           /\ lastRun.calls = <<>>
           /\ lastRun.modelCalls = 0

\* C3: run_injection with force=True on a (file content, instruction) that is
\* already cached does not answer from the cache: it calls a provider again.
C3_ForceBypassesCache ==
    (lastRun.op = "run_injection" /\ lastRun.force /\ lastRun.cachedBefore)
        => lastRun.calls # <<>>

-----------------------------------------------------------------------------
(* Claims about the retry engine *)

BoundaryCalls(trace) == {i \in 1..Len(trace) : trace[i].action # "skip"}

Retried == lastRetry.op = "inject_with_retry"

\* C4: after inject_with_retry returned a usable response for a (file,
\* instruction), a repeated call with the identical (file, instruction) makes
\* no provider boundary call
C4_RepeatMakesNoCall ==
    (Retried /\ lastRetry.repeat) => BoundaryCalls(lastRetry.trace) = {}

\* C5 as stated: when every provider call raises, inject_with_retry makes
\* exactly max_attempts * len(provider_chain) boundary calls and then raises
\* RuntimeError
C5_ExactlyAttemptsTimesChain ==
    (Retried /\ lastRetry.allRaise)
        => /\ lastRetry.result.kind = "raised"
           /\ Cardinality(BoundaryCalls(lastRetry.trace))
                  = lastRetry.engine.max_attempts * Len(lastRetry.start)

\* C5 amended: when every provider call raises, inject_with_retry visits
\* max_attempts * min(len(provider_chain), max_providers) (attempt, provider)
\* slots, makes one boundary call in every slot whose (file, instruction text
\* of the attempt, provider) is not yet in the ledger and none in the others,
\* and then raises RuntimeError
C5_AllRaiseSlots ==
    (Retried /\ lastRetry.allRaise)
        => /\ lastRetry.result.kind = "raised"
           /\ Len(lastRetry.trace)
                  = lastRetry.engine.max_attempts
                    * (IF Len(lastRetry.start) < lastRetry.engine.max_providers
                       THEN Len(lastRetry.start) ELSE lastRetry.engine.max_providers)
           /\ \A i \in 1..Len(lastRetry.trace) :
                  lastRetry.trace[i].action
                      = (IF lastRetry.trace[i].dup THEN "skip" ELSE "raise")

C5_Witness ==
    /\ Retried /\ lastRetry.allRaise
    /\ lastRetry.result.kind = "raised"
    /\ \E i \in 1..Len(lastRetry.trace) : lastRetry.trace[i].action = "skip"
    /\ \E i \in 1..Len(lastRetry.trace) : lastRetry.trace[i].action = "raise"
    /\ Len(lastRetry.start) > lastRetry.engine.max_providers

\* C6: a value inject_with_retry returns is not weak by the validator, and
\* when every provider response of every attempt is weak it raises
\* RuntimeError instead of returning
C6_NeverReturnsWeak ==
    Retried
        => /\ lastRetry.result.kind \in {"returned", "raised"}
           /\ lastRetry.result.kind = "returned" => ~is_weak_response(lastRetry.result.text)
           /\ lastRetry.allWeak => lastRetry.result.kind = "raised"

C6_Witness ==
    /\ Retried
    /\ lastRetry.result.kind = "returned"
    /\ \E i \in 1..Len(lastRetry.trace) : lastRetry.trace[i].action = "weak"

\* C7: a provider is skipped, with no boundary call, exactly when the ledger
\* already holds a record with the same file, the instruction text sent in
\* this attempt and the same provider; a skip appends nothing to the ledger
C7_SkipIffDuplicate ==
    Retried
        => \A i \in 1..Len(lastRetry.trace) :
               /\ lastRetry.trace[i].action = "skip" <=> lastRetry.trace[i].dup
               /\ lastRetry.trace[i].action = "skip" => lastRetry.trace[i].logged = 0

C7_Witness ==
    /\ Retried
    /\ \E i, j \in 1..Len(lastRetry.trace) :
           /\ lastRetry.trace[i].action = "skip" /\ lastRetry.trace[i].dup
           /\ lastRetry.trace[j].action # "skip" /\ ~lastRetry.trace[j].dup
           /\ lastRetry.trace[i].attempt = lastRetry.trace[j].attempt

\* C8: in the chain get_optimal_provider_chain produces for a file, a provider
\* with strictly fewer recorded failures for that file is placed before a
\* provider with more
C8_FewerFailuresFirst ==
    \A f \in Paths : \A i, j \in 1..Len(get_optimal_provider_chain(failures, f, Prompt1)) :
        FailureCount(failures, f, get_optimal_provider_chain(failures, f, Prompt1)[i])
            < FailureCount(failures, f, get_optimal_provider_chain(failures, f, Prompt1)[j])
        => i < j

-----------------------------------------------------------------------------
(* Claims about the approval queue *)

Uids(list) == {list[i].uid : i \in 1..Len(list)}

Occurrences(list, u) == Cardinality({i \in 1..Len(list) : list[i].uid = u})

AllItems == pending \o approved \o rejected

\* C9: approve(id) followed by reject(id) on the same id: the second call
\* returns false and the approved item stays in the approved list, in neither
\* of the other two
C9_RejectAfterApproveFails ==
    (/\ lastQ.op = "reject" /\ lastQ.prevOp = "approve"
     /\ lastQ.prevId = lastQ.id /\ lastQ.prevOk)
        => /\ ~lastQ.ok
           /\ lastQ.prevUid \in Uids(approved)
           /\ lastQ.prevUid \notin Uids(pending) \cup Uids(rejected)

\* C10: under add, approve, reject and approve-all every item is in exactly
\* one of the three lists, never has both flags set, and once in approved or
\* in rejected it stays in that list
C10_Lifecycle ==
    /\ [](\A u \in 1..created :
             /\ Occurrences(AllItems, u) = 1
             /\ \A i \in 1..Len(AllItems) :
                    ~(AllItems[i].approved /\ AllItems[i].rejected))
    /\ [][\A u \in 1..created :
             /\ u \in Uids(approved) => u \in Uids(approved')
             /\ u \in Uids(rejected) => u \in Uids(rejected')]_vars

C10_Witness ==
    /\ created = 3
    /\ Len(pending) = 1 /\ Len(approved) = 1 /\ Len(rejected) = 1
    /\ approved[1].approved /\ rejected[1].rejected
    /\ approved[1].id = rejected[1].id

\* C11: approve_all_strong_injections always returns; it returns the number of
\* pending items of status success, and afterwards no pending item has status
\* success
C11_ApproveAllReturns ==
    lastQ.op = "approve_all"
        => /\ lastQ.returned
           /\ lastQ.count = lastQ.strong
           /\ success_injections(pending) = <<>>
-----------------------------------------------------------------------------
(* The dependency tracker *)

\* the first position of x in list, 0 when it is absent
Position(list, x) ==
    IF InSeq(x, list) THEN CHOOSE i \in 1..Len(list) :
                               list[i] = x /\ \A j \in 1..(i - 1) : list[j] # x
    ELSE 0

OnceEach(list, set) == Range(list) = set /\ Len(list) = Cardinality(set)

ChainGraph ==
    <<[file |-> PathA, deps |-> <<PathB>>], [file |-> PathB, deps |-> <<PathC>>],
      [file |-> PathC, deps |-> <<>>]>>

\* C16: for a dependency graph without a cycle, every file and every dependency
\* is in the injection order once, and each dependency of a file comes before
\* the file
C16_DependenciesFirst ==
    ~find_cycle(dependency_graph)
        => /\ OnceEach(injection_order, Range(node2info(dependency_graph)))
           /\ \A i \in 1..Len(dependency_graph) :
                 \A dep \in Range(dependency_graph[i].deps) :
                     /\ Position(injection_order, dep) > 0
                     /\ Position(injection_order, dep)
                            < Position(injection_order, dependency_graph[i].file)

C16_Witness ==
    /\ dependency_graph = ChainGraph
    /\ injection_order = <<PathC, PathB, PathA>>

\* C17: for a dependency graph with a cycle, the injection order holds every
\* scanned file exactly once, in ascending number of dependencies
C17_CycleFallsBack ==
    find_cycle(dependency_graph)
        => /\ OnceEach(injection_order, Range(Keys(dependency_graph)))
           /\ \A i, j \in 1..Len(injection_order) :
                 i < j => Len(Deps(dependency_graph, injection_order[i]))
                              <= Len(Deps(dependency_graph, injection_order[j]))

\* a.py imports itself
C17_Witness ==
    /\ dependency_graph =
           <<[file |-> PathA, deps |-> <<PathA>>], [file |-> PathB, deps |-> <<>>],
             [file |-> PathC, deps |-> <<>>]>>
    /\ injection_order = <<PathB, PathC, PathA>>

\* C18: the list get_context_files returns never holds the target and holds no
\* file twice
C18_ContextExcludesTarget ==
    lastContext.op = "get_context_files"
        => /\ lastContext.file_path \notin Range(lastContext.result)
           /\ Cardinality(Range(lastContext.result)) = Len(lastContext.result)

\* the target is on a cycle and two other files are in its context
C18_Witness ==
    /\ lastContext.op = "get_context_files"
    /\ lastContext.file_path
           \in ReachedFrom(dependency_graph,
                           Range(Deps(dependency_graph, lastContext.file_path)))
    /\ Len(lastContext.result) = 2

-----------------------------------------------------------------------------
(* The directory injector *)

FilesOf(list) == {list[i].file : i \in 1..Len(list)}

QueuedFiles == {pending[i].file_path : i \in 1..Len(pending)}

\* C12: a file that was split and had a chunk for which every provider failed
\* is recorded as failed and not as successful, no .surgiout is written for it
\* and nothing is queued for it
C12_ChunkFailureFailsFile ==
    \A f \in dirRun.split \cap dirRun.failedCalls :
        /\ f \in FilesOf(injected.failed_injections)
        /\ f \notin FilesOf(injected.successful_injections)
        /\ f \notin DOMAIN outputs
        /\ f \notin QueuedFiles

\* C13: with skip_known, a processed file that had a cached success when the
\* call began is in skipped_files, and nothing was injected or queued for it
C13_CachedFileSkipped ==
    \A f \in Range(dirRun.done) :
        dirRun.params.skip_known /\ f \in dirRun.cachedBefore
            => /\ InSeq(f, injected.skipped_files)
               /\ f \notin FilesOf(injected.successful_injections)
               /\ f \notin QueuedFiles

AccountedOnce(f) ==
    Len(SelectSeq(injected.successful_injections, LAMBDA x : x.file = f))
        + Len(SelectSeq(injected.failed_injections, LAMBDA x : x.file = f))
        + Len(SelectSeq(injected.skipped_files, LAMBDA x : x = f)) = 1

IsPrefix(s, t) == Len(s) <= Len(t) /\ \A i \in 1..Len(s) : t[i] = s[i]

\* C14: a call that found files returns only after every one of them was
\* processed and recorded once, whatever failed on the way, and no step of a
\* call removes or changes an item of the queue
C14_FailuresDoNotAbort ==
    /\ [](dirRun.phase = "returned" /\ dirRun.result.success /\ dirRun.files # <<>>
             => /\ OnceEach(dirRun.done, Range(dirRun.files))
                /\ \A f \in Range(dirRun.files) : AccountedOnce(f))
    /\ [][/\ IsPrefix(pending, pending')
          /\ approved' = approved
          /\ rejected' = rejected]_vars

\* a pool of workers: the first file done failed and two later ones are queued
C14_Witness ==
    /\ dirRun.phase = "returned"
    /\ dirRun.parallel
    /\ Len(dirRun.done) = 3
    /\ dirRun.done[1] \in FilesOf(injected.failed_injections)
    /\ {dirRun.done[2], dirRun.done[3]} \subseteq QueuedFiles

\* C15: with one worker and dependency tracking, the files are completed and
\* queued in the injection order of the graph; for a.py -> b.py -> c.py that is
\* c.py, b.py, a.py
C15_SequentialFollowsOrder ==
    dirRun.phase # "idle" /\ dirRun.params.max_workers = 1 /\ dirRun.params.track_deps
        => /\ \A i, j \in 1..Len(dirRun.done) :
                 i < j => /\ Position(injection_order, dirRun.done[i]) > 0
                          /\ Position(injection_order, dirRun.done[i])
                                 < Position(injection_order, dirRun.done[j])
           /\ [i \in 1..Len(pending) |-> pending[i].file_path]
                  = SelectSeq(dirRun.done, LAMBDA f : f \in QueuedFiles)
           /\ (dependency_graph = ChainGraph /\ directory = ChainDirectory
                   /\ dirRun.phase = "returned" /\ dirRun.result.success
                  => dirRun.done = <<PathC, PathB, PathA>>)

C15_Witness ==
    /\ dirRun.phase = "returned"
    /\ dirRun.params.max_workers = 1
    /\ dirRun.params.track_deps
    /\ dependency_graph = ChainGraph
    /\ dirRun.done = <<PathC, PathB, PathA>>
    /\ [i \in 1..Len(pending) |-> pending[i].file_path] = <<PathC, PathB, PathA>>

-----------------------------------------------------------------------------
(* The quality gates and the failure ledger *)

\* C19: the gates classify the empty string, "none" and ten x as weak, and the
\* two-line response "def f():\n    return 1" as usable
C19_GateExamples ==
    lastGate.op = "is_weak"
        => /\ lastGate.response \in {<<>>, NoneText, Xs(10)}
                  => lastGate.weak /\ lastGate.quality_weak
           /\ lastGate.response = ShortCode
                  => ~lastGate.weak /\ ~lastGate.quality_weak

-----------------------------------------------------------------------------
(* The queue document.                                                       *)

Mutations == {"add", "approve", "reject", "clear"}

QueueLists == [pending |-> pending, approved |-> approved, rejected |-> rejected]

-----------------------------------------------------------------------------
(* inject_dir and the marker.                                                *)

WritesOf(f) == SelectSeq(lastDir.written, LAMBDA w : w.file = f)

\* C22: inject_dir calls the injection function for no file that holds its
\* marker; a file it reports as injected was written once, with content that
\* holds the marker, and holds it afterwards; and a run calls the injection
\* function for no file an earlier run over the directory injected.
C22_MarkerAtMostOnce ==
    lastDir.op = "inject_dir" =>
        /\ \A f \in Range(lastDir.calls) : ~file_contains_marker(lastDir.before, f)
        /\ \A f \in Range(lastDir.injected) :
               /\ Len(WritesOf(f)) = 1
               /\ WritesOf(f)[1].ok
               /\ Contains(WritesOf(f)[1].content, get_marker_for_file(f))
               /\ file_contains_marker(tree, f)
        /\ Range(lastDir.calls) \cap lastDir.earlier = {}

\* a second run skips the file the first run injected and injects the one
\* whose write had failed
C22_Witness ==
    /\ lastDir.op = "inject_dir"
    /\ lastDir.run = 2
    /\ lastDir.earlier = {PathA}
    /\ lastDir.skipped = <<PathA>>
    /\ lastDir.injected = <<PathJs>>
    /\ PathJs \in DOMAIN treeBackups

-----------------------------------------------------------------------------
(* A directory that does not exist.                                          *)

\* C23: a call of inject_directory_enhanced on a directory that does not
\* exist ends with an error and returns no successful result.
C23_MissingDirectoryAborts ==
    ~dirExists /\ dirRun.phase = "returned" => ~dirRun.result.success

-----------------------------------------------------------------------------
(* Large files.                                                              *)

\* C24: a file of more than 8000 characters that is processed with splitting
\* enabled is divided into at least two chunks.
C24_LargeFileSplitInTwo ==
    lastSplit.op = "process_single_file" /\ lastSplit.split_large
        /\ lastSplit.chars > SplitThreshold => Len(lastSplit.chunks) >= 2

-----------------------------------------------------------------------------
(* Backups.                                                                  *)

\* C25: restoring the backup that the k-th create_backup call returned gives
\* the file the content it had when that call was made.
C25_BackupRoundTrip ==
    lastBackup.op = "restore_backup" /\ lastBackup.ok
        => backedFile = lastBackup.taken[lastBackup.k].content

-----------------------------------------------------------------------------
(* The reverse graph.                                                        *)

\* C26: the reverse graph is the inversion of the forward graph: b is among
\* the dependencies of a exactly when a is among the dependents of b.
C26_ReverseIsInversion ==
    \A a \in Range(PathOrder), b \in Range(PathOrder) :
        b \in Range(Deps(dependency_graph, a)) <=> a \in Dependents(reverse_graph, b)

-----------------------------------------------------------------------------
(* The context of a file and the distances of the graph.                     *)

\* the files one hop from file, over forward and reverse edges
Neighbours(file) ==
    Range(Deps(dependency_graph, file)) \cup Dependents(reverse_graph, file)

\* the files at most k hops from target
RECURSIVE Within(_, _)
Within(target, k) ==
    IF k <= 0 THEN {target}
    ELSE Within(target, k - 1) \cup UNION {Neighbours(f) : f \in Within(target, k - 1)}

\* C27: for a scanned target, get_context_files returns exactly the files at
\* distance 1 to depth from it over forward and reverse edges; with depth 0
\* it returns the empty list.
C27_ContextIsBall ==
    lastContext.op = "get_context_files"
        /\ lastContext.file_path \in Range(Keys(dependency_graph))
        => /\ Range(lastContext.result)
                  = Within(lastContext.file_path, lastContext.depth)
                        \ {lastContext.file_path}
           /\ lastContext.depth = 0 => lastContext.result = <<>>

\* in the chain a.py -> b.py -> c.py, depth 1 from a.py gives b.py and leaves
\* c.py, two hops away, out
C27_Witness ==
    /\ lastContext.op = "get_context_files"
    /\ dependency_graph = ChainGraph
    /\ lastContext.file_path = PathA
    /\ lastContext.depth = 1
    /\ lastContext.result = <<PathB>>
    /\ PathC \in Within(PathA, 2)

-----------------------------------------------------------------------------
(* The context of a prompt and its budget.                                   *)

RECURSIVE ContextChars(_)
ContextChars(parts) ==
    IF parts = <<>> THEN 0 ELSE Len(Head(parts).content) + ContextChars(Tail(parts))

\* C28: the context-file characters of a prompt never exceed max_tokens * 4;
\* only the last file included may be truncated and carry the truncation
\* line, and no content of a later context file is included once the budget
\* is exhausted.
C28_ContextWithinBudget ==
    lastPrompt.op = "prepare_context_prompt"
        => /\ ContextChars(lastPrompt.context_parts) <= lastPrompt.max_tokens * 4
           /\ \A i \in 1..Len(lastPrompt.context_parts) :
                  lastPrompt.context_parts[i].truncated
                      => /\ i = Len(lastPrompt.context_parts)
                         /\ \A j \in (i + 1)..Len(lastPrompt.context_parts) :
                                lastPrompt.context_parts[j].content = <<>>

-----------------------------------------------------------------------------
(* The number of provider calls of one inject_with_retry.                    *)

\* min(len(provider_chain), max_providers) of the last invocation
ChainCap ==
    IF Len(lastRetry.start) < lastRetry.engine.max_providers
    THEN Len(lastRetry.start) ELSE lastRetry.engine.max_providers

\* C29: whatever the providers answer, inject_with_retry ends, after at most
\* max_attempts * min(len(provider_chain), max_providers) boundary calls, and
\* calls no provider beyond the first max_providers entries of the chain.
C29_CallsBounded ==
    Retried
        => /\ lastRetry.result.kind \in {"returned", "raised"}
           /\ Cardinality(BoundaryCalls(lastRetry.trace))
                  <= lastRetry.engine.max_attempts * ChainCap
           /\ \A i \in BoundaryCalls(lastRetry.trace) :
                  \E j \in 1..ChainCap : lastRetry.trace[i].provider = lastRetry.start[j]

\* a chain longer than max_providers whose first entries are all called in
\* every attempt: the bound is reached
C29_Witness ==
    /\ Retried
    /\ lastRetry.engine = DefaultEngine
    /\ Len(lastRetry.start) > lastRetry.engine.max_providers
    /\ lastRetry.result.kind = "raised"
    /\ Cardinality(BoundaryCalls(lastRetry.trace))
           = lastRetry.engine.max_attempts * lastRetry.engine.max_providers

-----------------------------------------------------------------------------
(* The ledger and a later invocation.                                        *)

\* C30: whatever the ledger holds, an inject_with_retry with a non-empty
\* provider chain and max_attempts >= 1 makes at least one boundary call
\* before it reports exhaustion.
C30_LedgerNeverBlocks ==
    (Retried /\ lastRetry.chain # <<>> /\ lastRetry.engine.max_attempts >= 1)
        => BoundaryCalls(lastRetry.trace) # {}

-----------------------------------------------------------------------------
(* The records one inject_with_retry appends.                                *)

FailedCall(slot) == slot.action \in {"weak", "raise"}

\* the place of a provider in the chain of the last invocation
ChainPlace(chain, provider) == CHOOSE p \in 1..Len(chain) : chain[p] = provider

\* the records the invocation appended, one for each failed call in turn
AppendedAsCalled(before, after, calls) ==
    /\ Len(after) = Len(before) + Len(calls)
    /\ \A j \in 1..Len(calls) :
           /\ after[Len(before) + j].provider = calls[j].provider
           /\ calls[j].action = "weak"
                  => after[Len(before) + j].reason = WeakResponseReason

-----------------------------------------------------------------------------
(* The cache under the workers of the pool.                                  *)

PoolDone == \A w \in Workers : At(w, "done")

\* C32: whatever the interleaving of the workers, the answer a provider gave
\* to a worker is returned by that worker, is in the cache in memory and is
\* in the cache file when all workers have ended.
C32_NoAnswerLost ==
    PoolDone
        => \A w \in Workers :
               pool.worker[w].answered
                   => /\ pool.worker[w].result = "returned"
                      /\ WorkerKey(w) \in Range(pool.cache)
                      /\ WorkerKey(w) \in json_load(pool.file)

-----------------------------------------------------------------------------
(* approve and reject of one id by two threads.                              *)

CallersDone == \A t \in CallerNames : callers[t].pc = "done"

\* C33: when approve(id) and reject(id) are called by two threads on the same
\* pending id, in every interleaving exactly one call returns true, and the
\* item is in exactly one of the approved and rejected lists.
C33_OneCallWins ==
    CallersDone
        => /\ callers["approve"].ok # callers["reject"].ok
           /\ \A i \in 1..Len(approved), j \in 1..Len(rejected) :
                  ~(approved[i].id = callers["approve"].id
                      /\ rejected[j].id = callers["reject"].id)

-----------------------------------------------------------------------------
(* The pool and the dependency order.                                        *)

\* C34: with more than one worker the files are handed to the pool in the
\* order of the dependency hint, and no file waits for its dependencies:
\* every file handed in and not yet done can be taken up by a worker,
\* whatever files are still to do.
C34_OrderIsAHint ==
    (dirRun.phase = "running" /\ dirRun.parallel)
        => /\ dirRun.params.track_deps
                  => \A i, j \in 1..Len(dirRun.todo) :
                         (/\ i < j
                          /\ Position(injection_order, dirRun.todo[i]) > 0
                          /\ Position(injection_order, dirRun.todo[j]) > 0)
                         => Position(injection_order, dirRun.todo[i])
                                < Position(injection_order, dirRun.todo[j])
           /\ \A f \in Range(dirRun.todo) : Startable(dirRun, f)

\* a.py is done while b.py, which it imports, is still to do
C34_Witness ==
    /\ dirRun.phase = "running"
    /\ dirRun.parallel
    /\ dirRun.params.track_deps
    /\ dependency_graph = ChainGraph
    /\ PathA \in Range(dirRun.done)
    /\ PathB \in Range(dirRun.todo)

-----------------------------------------------------------------------------
(* The ids of the queue.                                                     *)

\* C35: the id add_injection_result gives an item differs from the id of
\* every other item in the pending, approved and rejected lists, so that
\* approve(id) and reject(id) act on the item for which add returned the id.
C35_IdsUnique ==
    /\ \A i, j \in 1..Len(AllItems) : i # j => AllItems[i].id # AllItems[j].id
    /\ (lastQ.op \in {"approve", "reject"} /\ lastQ.ok /\ lastQ.prevOp = "add"
            /\ lastQ.prevId = lastQ.id)
        => lastQ.uid = lastQ.prevUid

-----------------------------------------------------------------------------
(* The provider named in the queue.                                          *)

\* C36: the item the module-level inject_with_retry adds to the queue names
\* the provider whose response was returned; when the first provider of the
\* chain answers weakly and the second usably, it names the second.
C36_QueuedProviderAnswered ==
    (Retried /\ lastRetry.result.kind = "returned" /\ lastQ.op = "add")
        => pending[Len(pending)].provider
               = lastRetry.trace[Len(lastRetry.trace)].provider

-----------------------------------------------------------------------------
(* The counts of a call.                                                     *)

\* C37: the counts every call returns, a second call in the same process
\* included, add up to the files of that call, and every file found in the
\* call is counted in exactly one of successful, failed and skipped.
C37_CountsAddUp ==
    (dirRun.phase = "returned" /\ dirRun.result.success /\ dirRun.files # <<>>)
        => /\ dirRun.result.successful_injections + dirRun.result.failed_injections
                  + dirRun.result.skipped_files = dirRun.result.total_files
           /\ \A f \in Range(dirRun.files) : AccountedOnce(f)

-----------------------------------------------------------------------------
(* engine/injector.py: handle_injection called with chosen texts.            *)

\* the file contents and the prompts the callers hand in
HandleContents == {<<"a","b">>, <<"a">>}

HandlePrompts == {<<"c">>, <<"b","c">>}

\* the state after handle_injection(prompt, file_content, no_cache, force_refresh)
\* returned h
HandleInjectionDone(h, prompt, file_content, force_refresh) ==
    /\ cache' = h.cache
    /\ cacheFile' = IF h.wrote THEN h.cache ELSE cacheFile
    /\ obtained' = IF h.wrote
                   THEN obtained \cup {[content |-> file_content, instruction |-> prompt,
                                        text |-> h.text]}
                   ELSE obtained
    /\ lastRun' = [op |-> "handle_injection", source_code |-> file_content,
                   prompt_template |-> prompt, file_path |-> <<>>,
                   force |-> force_refresh, result |-> h.text, calls |-> h.calls,
                   modelCalls |-> 0, cachedBefore |-> h.hit,
                   obtainedBefore |->
                       {o.text : o \in {x \in obtained :
                                           /\ x.content = file_content
                                           /\ x.instruction = prompt}}]
    /\ UNCHANGED <<apiKeys, disk, backups, history, lastBatch>>

HandleInjection(prompt, file_content, no_cache, force_refresh, outcome) ==
    HandleInjectionDone(handle_injection(cache, prompt, file_content, no_cache,
                                         force_refresh, apiKeys, outcome),
                        prompt, file_content, force_refresh)

HandleInjectionStep ==
    \E prompt \in HandlePrompts, file_content \in HandleContents,
       no_cache \in BOOLEAN, force_refresh \in BOOLEAN,
       outcome \in [ProviderNames -> ProviderOutcomes] :
        /\ HandleInjection(prompt, file_content, no_cache, force_refresh, outcome)
        /\ UNCHANGED <<retryVars, queueVars, trackerVars, dirVars, toolVars>>

\* no key is set, or both are
InitHandle == Init /\ apiKeys \in {{}, ProviderNames}

SpecHandle == InitHandle /\ [][HandleInjectionStep]_vars

\* C38: a cache entry is returned only for the (content, instruction) pair
\* that stored it: a call answered from the cache returns a text that a call
\* with the same content and the same instruction stored, and two pairs that
\* that stored an entry and differ in content or in instruction never have the
\* same cache key.
C38_EntryOfItsPair ==
    /\ (lastRun.op = "handle_injection" /\ lastRun.cachedBefore)
           => lastRun.result \in lastRun.obtainedBefore
    /\ \A x \in obtained, y \in obtained :
           (x.content # y.content \/ x.instruction # y.instruction)
               => compute_fingerprint(x.content, x.instruction)
                      # compute_fingerprint(y.content, y.instruction)

-----------------------------------------------------------------------------
(* engine/file_splitter.py: split_file of a Python file (_split_python_file). *)
(* A line is its number in the file, its indentation and what its stripped   *)
(* text is: a def or class header (with its colon), a comment, other code,   *)
(* or nothing. The content of a chunk, '\n'.join(current_chunk), is kept as  *)
(* the lines joined; the characters of the file are not counted.             *)

PathPy == <<"m","o","d","e","l","s",".","p","y">>

get_indent_level(line) == line.indent

\* the identifier after def or class; the one of line n is written n<n>
extract_python_name(line) == <<"n">> \o DecimalText(line.no)

IsDef(line) == line.kind = "def"

IsClass(line) == line.kind = "class"

\* the inner while loop (lines 103-110, 152-159): the place of the first line
\* from i on that ends the body of a header indented by indent_level
RECURSIVE BlockEnd(_, _, _)
BlockEnd(lines, i, indent_level) ==
    IF i > Len(lines) THEN i
    ELSE IF /\ lines[i].kind # "blank"
            /\ get_indent_level(lines[i]) <= indent_level
            /\ lines[i].kind # "comment"
    THEN i
    ELSE BlockEnd(lines, i + 1, indent_level)

\* _split_large_python_block: the loop over lines from the place i on
RECURSIVE LargeBlock(_, _, _, _, _, _, _)
LargeBlock(lines, start_line, size, i, chunks, current_chunk, current_start) ==
    IF i > Len(lines)
    THEN IF current_chunk # <<>>
         THEN Append(chunks, FileChunk(current_chunk, current_start,
                                       start_line + Len(lines) - 1, "sub_block",
                                       <<"s","u","b","_","b","l","o","c","k","_">>
                                           \o DecimalText(Len(chunks) + 1)))
         ELSE chunks
    ELSE LET grown == Append(current_chunk, lines[i])
         IN  IF Len(grown) >= size \div 2 \/ (IsDef(lines[i]) /\ Len(grown) > 10)
             THEN LargeBlock(lines, start_line, size, i + 1,
                             Append(chunks, FileChunk(grown, current_start,
                                                      start_line + i - 1, "sub_block",
                                                      <<"s","u","b","_","b","l","o","c","k","_">>
                                                          \o DecimalText(Len(chunks) + 1))),
                             <<>>, start_line + i)
             ELSE LargeBlock(lines, start_line, size, i + 1, chunks, grown, current_start)

split_large_python_block(lines, start_line, size) ==
    LargeBlock(lines, start_line, size, 1, <<>>, <<>>, start_line)


\* _split_large_python_class: the loop over lines from the place i on; the line
\* is appended before the test for a method header
RECURSIVE LargeClass(_, _, _, _, _, _, _)
LargeClass(lines, start_line, i, chunks, current_chunk, current_start, current_method) ==
    IF i > Len(lines)
    THEN IF current_chunk # <<>>
         THEN Append(chunks, FileChunk(current_chunk, current_start,
                                       start_line + Len(lines) - 1, "method", current_method))
         ELSE chunks
    ELSE IF IsDef(lines[i])
    THEN LargeClass(lines, start_line, i + 1,
                    Append(chunks, FileChunk(Append(current_chunk, lines[i]), current_start,
                                             start_line + i - 2, "method", current_method)),
                    <<lines[i]>>, start_line + i - 1, extract_python_name(lines[i]))
    ELSE LargeClass(lines, start_line, i + 1, chunks, Append(current_chunk, lines[i]),
                    current_start, current_method)

split_large_python_class(lines, start_line) ==
    LargeClass(lines, start_line, 1, <<>>, <<>>, start_line, <<"c","l","a","s","s","_","i","n","i","t">>)

\* the chunks with the one open before a header saved (lines 83-90, 132-139)
SavePrevious(st, i) ==
    IF st.current_chunk # <<>>
    THEN Append(st.chunks, FileChunk(st.current_chunk, st.current_start, i - 1,
                                     st.current_type, st.current_name))
    ELSE st.chunks

\* a function or class whose header is line i and whose body ends before line j
HeaderChunks(lines, st, i, j, size) ==
    IF j - i > size
    THEN SavePrevious(st, i)
         \o (IF IsDef(lines[i]) THEN split_large_python_block(SubSeq(lines, i, j - 1), i, size)
             ELSE split_large_python_class(SubSeq(lines, i, j - 1), i))
    ELSE Append(SavePrevious(st, i),
                FileChunk(SubSeq(lines, i, j - 1), i, j - 1,
                          IF IsDef(lines[i]) THEN "function" ELSE "class",
                          extract_python_name(lines[i])))

\* the main loop of _split_python_file with line i next
RECURSIVE PythonChunks(_, _, _, _)
PythonChunks(lines, st, i, size) ==
    IF i > Len(lines)
    THEN IF st.current_chunk # <<>>
         THEN Append(st.chunks, FileChunk(st.current_chunk, st.current_start, Len(lines),
                                          st.current_type, st.current_name))
         ELSE st.chunks
    ELSE IF IsDef(lines[i]) \/ IsClass(lines[i])
    THEN PythonChunks(lines,
                      [chunks |-> HeaderChunks(lines, st, i,
                                               BlockEnd(lines, i + 1, get_indent_level(lines[i])),
                                               size),
                       current_chunk |-> <<>>, current_start |-> i,
                       current_type |-> IF IsDef(lines[i]) THEN "function" ELSE "class",
                       current_name |-> extract_python_name(lines[i])],
                      BlockEnd(lines, i + 1, get_indent_level(lines[i])), size)
    ELSE IF Len(st.current_chunk) + 1 >= size
    THEN PythonChunks(lines,
                      [st EXCEPT !.chunks = Append(st.chunks,
                                                   FileChunk(Append(st.current_chunk, lines[i]),
                                                             st.current_start, i,
                                                             st.current_type, st.current_name)),
                                 !.current_chunk = <<>>,
                                 !.current_start = i + 1],
                      i + 1, size)
    ELSE PythonChunks(lines, [st EXCEPT !.current_chunk = Append(st.current_chunk, lines[i])],
                      i + 1, size)

split_python_file(lines, size) ==
    PythonChunks(lines,
                 [chunks |-> <<>>, current_chunk |-> <<>>, current_start |-> 1,
                  current_type |-> "block", current_name |-> <<"m","a","i","n">>],
                 1, size)

\* what a line of the files split here can be
LineShapes ==
    {[kind |-> "def", indent |-> 0], [kind |-> "def", indent |-> 4],
     [kind |-> "class", indent |-> 0], [kind |-> "code", indent |-> 0],
     [kind |-> "code", indent |-> 4], [kind |-> "comment", indent |-> 4],
     [kind |-> "blank", indent |-> 0]}

Numbered(shapes) ==
    [i \in 1..Len(shapes) |->
        [no |-> i, kind |-> shapes[i].kind, indent |-> shapes[i].indent]]

MaxFileLines == 4

ShortFiles == UNION {[1..n -> LineShapes] : n \in 0..MaxFileLines}

\* the chunk sizes short files are split with
ShortSizes == {2, 3}

\* a class of n lines whose line k, if any, is the header of a method
LongClass(n, k) ==
    [i \in 1..n |-> IF i = 1 THEN [kind |-> "class", indent |-> 0]
                    ELSE IF i = k THEN [kind |-> "def", indent |-> 4]
                    ELSE [kind |-> "code", indent |-> 4]]

LongClasses == {LongClass(n, k) : n \in {100, 101, 120}, k \in {0, 2, 60}}

\* split_file(file_path, max_chunk_size=size) of a .py file of these lines
SplitPythonDone(file_path, lines, size) ==
    lastSplit' = [op |-> "split_file", file |-> file_path, lines |-> Len(lines),
                  chars |-> 0, split_large |-> TRUE, split |-> TRUE,
                  max_chunk_size |-> size,
                  chunks |-> split_python_file(lines, size)]

\* one file is split in a behaviour
SplitPythonStep ==
    /\ lastSplit.op = "none"
    /\ \/ \E shapes \in ShortFiles, size \in ShortSizes :
              SplitPythonDone(PathPy, Numbered(shapes), size)
       \/ \E shapes \in LongClasses :
              SplitPythonDone(PathPy, Numbered(shapes), max_chunk_size)
    /\ UNCHANGED <<injectVars, retryVars, queueVars, trackerVars, dirVars, markerVars,
                   backupVars, lastPrompt, pool>>

SpecSplitPython == InitKeyless /\ [][SplitPythonStep]_vars

\* the numbers of the lines of the chunks, in chunk order
RECURSIVE ChunkLineNumbers(_)
ChunkLineNumbers(chunks) ==
    IF chunks = <<>> THEN <<>>
    ELSE [i \in 1..Len(Head(chunks).content) |-> Head(chunks).content[i].no]
         \o ChunkLineNumbers(Tail(chunks))

\* C39: the chunks split_file produces partition the file: taken in chunk
\* order their lines are exactly the lines of the original file, each line in
\* exactly one chunk, none lost, duplicated or reordered.
C39_ChunksPartition ==
    lastSplit.op = "split_file"
        => ChunkLineNumbers(lastSplit.chunks) = [i \in 1..lastSplit.lines |-> i]

====
